---- MODULE Spec2Model ----
(***************************************************************************)
(* A model of pTLS (the-abra/pTLS): the record framer (IoWrapper), the     *)
(* RSA codec (crypto), the Tunnel handshake state machine and the Ptls     *)
(* tunnel of lib.rs.                                                       *)
(*                                                                         *)
(* Groups of state, each with its own specifications:                      *)
(*   SpecIo, SpecWire     - IoWrapper::send / IoWrapper::receive over one  *)
(*                          carrier, at the level of the bytes on it;      *)
(*   SpecCrypto           - Encrypt, Decrypt, Signing and Verifying;       *)
(*   SpecTasks, SpecCancel, SpecSenders                                    *)
(*                        - concurrent send and receive calls on one       *)
(*                          IoWrapper or Ptls, and calls that are dropped; *)
(*   SpecTunnel, SpecHandshake, SpecNegotiate, SpecAuth, SpecServer,       *)
(*   SpecAlert                                                             *)
(*                        - two Tunnels (client, server) over a pair of    *)
(*                          carriers;                                      *)
(*   SpecPtls, SpecExchange, SpecTimeout                                   *)
(*                        - two Ptls objects (client, server) of lib.rs.   *)
(* A specification leaves the other groups' variables at their idle value. *)
(***************************************************************************)
EXTENDS Integers, Sequences, FiniteSets, TLC

VARIABLES
    ioWire,     \* bytes written to the carrier and not yet read
    ioSent,     \* records accepted by IoWrapper::send, not yet received
    ioRes,      \* the last IoWrapper call: its arguments and what it returned
    ioTask,     \* concurrent calls on one object: locks, positions, history
    tun,        \* the two Tunnels: their fields
    twire,      \* twire[p]: the frames on the carrier that p reads
    hs,         \* hs[p]: p's handshake call (position, locals, result)
    tLast,      \* the last Tunnel operation and what it did
    tOps,       \* the number of application and peer operations so far
    pt,         \* the two Ptls objects: their fields
    pwire,      \* pwire[p]: the carrier that p reads
    pLast,      \* the last Ptls operation and what it did
    pOps,       \* the number of Ptls operations so far
    cr          \* the crypto primitives under test and their last result

ioVars == <<ioWire, ioSent, ioRes, ioTask>>

tunVars == <<tun, twire, hs, tLast, tOps>>

ptlsVars == <<pt, pwire, pLast, pOps>>

cryptoVars == <<cr>>

vars == <<ioWire, ioSent, ioRes, ioTask, tun, twire, hs, tLast, tOps,
          pt, pwire, pLast, pOps, cr>>

(***************************************************************************)
(* Results and options.                                                    *)
(***************************************************************************)
None == [some |-> FALSE]

Some(x) == [some |-> TRUE, v |-> x]

Ok(x) == [st |-> "Ok", v |-> x]

Err(e) == [st |-> "Err", err |-> e]

\* An unwinding panic (an out-of-range slice, an unwrap of an Err).
Panic == [st |-> "Panic", err |-> "panic"]

CeilDiv(a, b) == (a + b - 1) \div b

Min(a, b) == IF a <= b THEN a ELSE b

(***************************************************************************)
(* Byte strings.  A byte string is a sequence of runs <<b, n>>: the byte b *)
(* repeated n >= 1 times, adjacent runs holding different bytes, so that   *)
(* two byte strings are equal exactly when their run sequences are.  This  *)
(* keeps payloads of 65530 bytes and more small in the state.              *)
(***************************************************************************)
BRep(b, n) == IF n <= 0 THEN <<>> ELSE << <<b, n>> >>

BByte(b) == BRep(b, 1)

RECURSIVE BLen(_)
BLen(s) == IF s = <<>> THEN 0 ELSE s[1][2] + BLen(Tail(s))

BCat(s, t) ==
    IF s = <<>> THEN t
    ELSE IF t = <<>> THEN s
    ELSE IF s[Len(s)][1] = t[1][1]
         THEN SubSeq(s, 1, Len(s) - 1)
              \o << <<t[1][1], s[Len(s)][2] + t[1][2]>> >>
              \o Tail(t)
         ELSE s \o t

\* The first k bytes of s (all of s when it is shorter).
RECURSIVE BTake(_, _)
BTake(s, k) ==
    IF k <= 0 \/ s = <<>> THEN <<>>
    ELSE IF s[1][2] >= k THEN << <<s[1][1], k>> >>
    ELSE << s[1] >> \o BTake(Tail(s), k - s[1][2])

\* s without its first k bytes.
RECURSIVE BDrop(_, _)
BDrop(s, k) ==
    IF k <= 0 \/ s = <<>> THEN s
    ELSE IF s[1][2] > k THEN << <<s[1][1], s[1][2] - k>> >> \o Tail(s)
    ELSE BDrop(Tail(s), k - s[1][2])

\* The byte at 0-based index i of s (i < BLen(s)).
RECURSIVE BAt(_, _)
BAt(s, i) == IF i < s[1][2] THEN s[1][1] ELSE BAt(Tail(s), i - s[1][2])

\* The byte string of a plain sequence of bytes.
RECURSIVE BOf(_)
BOf(q) == IF q = <<>> THEN <<>> ELSE BCat(BByte(q[1]), BOf(Tail(q)))

(***************************************************************************)
(* Integers on the wire: tokio's write_u16 / read_u16 are big-endian.      *)
(***************************************************************************)
U16Max == 65535

AsU16(n) == n % (U16Max + 1)

WriteU16(v) == BCat(BByte(v \div 256), BByte(v % 256))

ReadU16(s, i) == BAt(s, i) * 256 + BAt(s, i + 1)

(***************************************************************************)
(* payload.rs, sub_protocol/mod.rs                                         *)
(***************************************************************************)
\* size_of::<Header>(): u16 + ContentType (one byte) + u16, aligned to 2.
HeaderSize == 6

MAX_PAYLOAD_LENGTH == U16Max - HeaderSize + 1

PTLS_VERSION == 0

\* The bytes a frame's header takes on the carrier: u16 + u8 + u16.
WireHeaderLen == 5

ContentType == {"ClientHello", "Handshake", "ApplicationData", "Alert"}

\* `content_type as u8`
ContentTypeAsU8(ct) ==
    CASE ct = "ClientHello" -> 0
      [] ct = "Handshake" -> 1
      [] ct = "ApplicationData" -> 2
      [] ct = "Alert" -> 3

\* ContentType::try_from(u8): "Err" for a byte that names no content type.
ContentTypeTryFrom(b) ==
    CASE b = 0 -> "ClientHello"
      [] b = 1 -> "Handshake"
      [] b = 2 -> "ApplicationData"
      [] b = 3 -> "Alert"
      [] OTHER -> "Err"

(***************************************************************************)
(* IoWrapper::send                                                         *)
(***************************************************************************)
\* A mutant of IoFrame: the length is written before the content type.
IoFrameSwapped(ct, payload) ==
    BCat(WriteU16(PTLS_VERSION),
         BCat(WriteU16(AsU16(BLen(payload))),
              BCat(BByte(ContentTypeAsU8(ct)), payload)))

\* The bytes send writes under the write lock: version, content type,
\* length, payload.
IoFrame(ct, payload) ==
    BCat(WriteU16(PTLS_VERSION),
         BCat(BByte(ContentTypeAsU8(ct)),
              BCat(WriteU16(AsU16(BLen(payload))), payload)))

\* A mutant of IoSendResult: the arm for an empty payload is missing.
IoSendResultNoEmptyArm(length) ==
    IF length > MAX_PAYLOAD_LENGTH
        THEN [st |-> "MessageTooLong", arg |-> length]
    ELSE [st |-> "Ok"]

\* What send returns for a payload of `length` bytes (`match payload.len()`);
\* the frame is written exactly when it is Ok.
IoSendResult(length) ==
    IF length > MAX_PAYLOAD_LENGTH
        THEN [st |-> "MessageTooLong", arg |-> length]
    ELSE IF length = 0
        THEN [st |-> "NoPayload"]
    ELSE [st |-> "Ok"]

(***************************************************************************)
(* IoWrapper::receive, as a function of the bytes available on the         *)
(* carrier: the result and the number of bytes consumed.  "Pending" means  *)
(* that the call is suspended waiting for more bytes.                      *)
(***************************************************************************)
\* A mutant of IoReceiveOutcome: the arm for a length of 0 is missing.
IoReceiveOutcomeNoZeroArm(w) ==
    IF BLen(w) < WireHeaderLen THEN [st |-> "Pending", used |-> 0]
    ELSE
      LET version == ReadU16(w, 0)
          content_type == BAt(w, 2)
          length == ReadU16(w, 3)
      IN  IF length > MAX_PAYLOAD_LENGTH
              THEN [st |-> "MessageTooLong", arg |-> length,
                    used |-> WireHeaderLen]
          ELSE IF version # PTLS_VERSION
              THEN [st |-> "InappropriateVersion", arg |-> version,
                    used |-> WireHeaderLen]
          ELSE IF BLen(w) < WireHeaderLen + length
              THEN [st |-> "Pending", used |-> 0]
          ELSE IF ContentTypeTryFrom(content_type) = "Err"
              THEN [st |-> "UnknownContentType", arg |-> content_type,
                    used |-> WireHeaderLen + length]
          ELSE [st |-> "Ok",
                ct |-> ContentTypeTryFrom(content_type),
                payload |-> BTake(BDrop(w, WireHeaderLen), length),
                used |-> WireHeaderLen + length]

\* A mutant of IoReceiveOutcome: the payload of a frame with an unknown
\* content type is left on the carrier.
IoReceiveOutcomeNoDrain(w) ==
    IF BLen(w) < WireHeaderLen THEN [st |-> "Pending", used |-> 0]
    ELSE
      LET version == ReadU16(w, 0)
          content_type == BAt(w, 2)
          length == ReadU16(w, 3)
      IN  IF length = 0
              THEN [st |-> "NoPayload", used |-> WireHeaderLen]
          ELSE IF length > MAX_PAYLOAD_LENGTH
              THEN [st |-> "MessageTooLong", arg |-> length,
                    used |-> WireHeaderLen]
          ELSE IF version # PTLS_VERSION
              THEN [st |-> "InappropriateVersion", arg |-> version,
                    used |-> WireHeaderLen]
          ELSE IF BLen(w) < WireHeaderLen + length
              THEN [st |-> "Pending", used |-> 0]
          ELSE IF ContentTypeTryFrom(content_type) = "Err"
              THEN [st |-> "UnknownContentType", arg |-> content_type,
                    used |-> WireHeaderLen]
          ELSE [st |-> "Ok",
                ct |-> ContentTypeTryFrom(content_type),
                payload |-> BTake(BDrop(w, WireHeaderLen), length),
                used |-> WireHeaderLen + length]

\* IoWrapper::receive
IoReceiveOutcome(w) ==
    IF BLen(w) < WireHeaderLen THEN [st |-> "Pending", used |-> 0]
    ELSE
      LET version == ReadU16(w, 0)
          content_type == BAt(w, 2)
          length == ReadU16(w, 3)
      IN  IF length = 0
              THEN [st |-> "NoPayload", used |-> WireHeaderLen]
          ELSE IF length > MAX_PAYLOAD_LENGTH
              THEN [st |-> "MessageTooLong", arg |-> length,
                    used |-> WireHeaderLen]
          ELSE IF version # PTLS_VERSION
              THEN [st |-> "InappropriateVersion", arg |-> version,
                    used |-> WireHeaderLen]
          ELSE IF BLen(w) < WireHeaderLen + length
              THEN [st |-> "Pending", used |-> 0]
          ELSE IF ContentTypeTryFrom(content_type) = "Err"
              THEN [st |-> "UnknownContentType", arg |-> content_type,
                    used |-> WireHeaderLen + length]
          ELSE [st |-> "Ok",
                ct |-> ContentTypeTryFrom(content_type),
                payload |-> BTake(BDrop(w, WireHeaderLen), length),
                used |-> WireHeaderLen + length]

(***************************************************************************)
(* SpecIo: one IoWrapper over a loop-back carrier (io_wrapper test).       *)
(***************************************************************************)
\* The number of frames that may wait on the carrier.
MaxInFlight == 2

\* The payloads handed to send: short ones, ones whose length needs both
\* length bytes, the longest legal one, and illegal ones.
IoPayloads ==
    { <<>>,
      BRep(123, 1),
      BOf(<<1, 2, 3>>),
      BRep(0, 256),
      BRep(7, MAX_PAYLOAD_LENGTH),
      BRep(7, MAX_PAYLOAD_LENGTH + 1),
      BRep(0, U16Max + 1) }

IoIdle == [op |-> "none"]

\* No concurrent calls are modelled.
NoTasks == [obj |-> "none"]

IoStart ==
    /\ ioWire = <<>>
    /\ ioSent = <<>>
    /\ ioRes = IoIdle
    /\ ioTask = NoTasks

IoSend(ct, payload) ==
    /\ UNCHANGED <<ioTask, tunVars, ptlsVars, cryptoVars>>
    /\ Len(ioSent) < MaxInFlight
    /\ LET r == IoSendResult(BLen(payload))
       IN  /\ ioRes' = [op |-> "send", ct |-> ct, payload |-> payload, got |-> r]
           /\ IF r.st = "Ok"
                THEN /\ ioWire' = BCat(ioWire, IoFrame(ct, payload))
                     /\ ioSent' = Append(ioSent, [ct |-> ct, payload |-> payload])
                ELSE UNCHANGED <<ioWire, ioSent>>

IoReceive ==
    LET r == IoReceiveOutcome(ioWire)
    IN  /\ UNCHANGED <<ioTask, tunVars, ptlsVars, cryptoVars>>
        /\ r.st # "Pending"
        /\ ioWire' = BDrop(ioWire, r.used)
        /\ ioRes' = [op |-> "receive",
                     sent |-> IF ioSent = <<>> THEN IoIdle ELSE Head(ioSent),
                     got |-> [x \in DOMAIN r \ {"used"} |-> r[x]]]
        /\ ioSent' = IF ioSent = <<>> THEN <<>> ELSE Tail(ioSent)

IoNext ==
    \/ \E ct \in ContentType, payload \in IoPayloads : IoSend(ct, payload)
    \/ IoReceive

(***************************************************************************)
(* C3 - record round-trip: send accepts every (ct, p) with                 *)
(* 1 <= |p| <= MAX_PAYLOAD_LENGTH, and the receive that reads the frame    *)
(* send wrote returns exactly (ct, p).                                     *)
(***************************************************************************)
C3_RecordRoundTrip ==
    /\ (ioRes.op = "send"
          /\ BLen(ioRes.payload) >= 1
          /\ BLen(ioRes.payload) <= MAX_PAYLOAD_LENGTH)
        => ioRes.got.st = "Ok"
    /\ ioRes.op = "receive"
        => ioRes.got = [st |-> "Ok", ct |-> ioRes.sent.ct,
                        payload |-> ioRes.sent.payload]

\* A receive has returned the longest legal payload, sent as an Alert.
C3_Witness ==
    /\ ioRes.op = "receive"
    /\ ioRes.got.st = "Ok"
    /\ ioRes.got.ct = "Alert"
    /\ BLen(ioRes.got.payload) = MAX_PAYLOAD_LENGTH

(***************************************************************************)
(* C11 - send rejects an empty payload with NoPayload and a payload longer *)
(* than MAX_PAYLOAD_LENGTH with MessageTooLong, and a rejected send leaves *)
(* the carrier as it was: not one byte is written.                         *)
(***************************************************************************)
C11_SendRejectsBeforeWriting ==
    [][ioRes'.op = "send" =>
         /\ BLen(ioRes'.payload) = 0
              => ioRes'.got.st = "NoPayload" /\ ioWire' = ioWire
         /\ BLen(ioRes'.payload) > MAX_PAYLOAD_LENGTH
              => ioRes'.got.st = "MessageTooLong" /\ ioWire' = ioWire]_vars

\* An oversize payload was rejected while a frame waited on the carrier.
C11_Witness ==
    /\ ioRes.op = "send"
    /\ BLen(ioRes.payload) = MAX_PAYLOAD_LENGTH + 1
    /\ ioRes.got.st = "MessageTooLong"
    /\ ioWire # <<>>

(***************************************************************************)
(* SpecWire: an IoWrapper whose carrier is written by the remote end, byte *)
(* for byte, as the err_tests of io_wrapper/receive.rs do                  *)
(* (w.write_all(payload)).  ioSent holds what was written, one entry for   *)
(* every write, with the content type "raw".                               *)
(***************************************************************************)
\* The bytes that may wait on the carrier and belong to no waiting write
\* (what a receive that stopped after the header left behind).
MaxStray == 1

\* The payloads of the well-formed frames the remote end writes.
WirePayloads == { BRep(123, 1), BOf(<<1, 2, 3>>) }

\* What the remote end writes: well-formed frames of every content type,
\* frames with a content type byte that names none, with a length of 0 or
\* above MAX_PAYLOAD_LENGTH, with another version, and mixes of these.
\* The longest frame, with a content type byte that names none.
WireLongest == BCat(BOf(<<0, 0, 200, 255, 250>>), BRep(0, MAX_PAYLOAD_LENGTH))

WireFrames ==
    { IoFrame(ct, p) : ct \in ContentType, p \in WirePayloads }
    \cup { BOf(<<0, 0, 255, 0, 1, 123>>),
           WireLongest,
           BOf(<<0, 0, 1, 0, 0>>),
           BOf(<<0, 0, 1, 255, 255>>),
           BOf(<<0, 0, 2, 255, 251>>),
           BOf(<<0, 1, 1, 0, 1, 123>>),
           BOf(<<0, 1, 1, 0, 0>>) }

\* The bytes an entry of ioSent put on the carrier.
FrameBytes(e) ==
    IF e.ct = "raw" THEN e.payload ELSE IoFrame(e.ct, e.payload)

RECURSIVE FramesBytes(_)
FramesBytes(q) ==
    IF q = <<>> THEN <<>>
    ELSE BCat(FrameBytes(Head(q)), FramesBytes(Tail(q)))

\* The next byte of the carrier is the first byte of the oldest waiting
\* write: the reader is at a frame boundary.
IoAligned == ioWire = FramesBytes(ioSent)

\* The remote end writes `bytes` to the carrier.  The longest frame is
\* written to an empty carrier only: a reader that had lost the frame
\* boundary in front of it would cross it five bytes at a time.
IoWrite(bytes) ==
    /\ UNCHANGED <<ioTask, tunVars, ptlsVars, cryptoVars>>
    /\ Len(ioSent) < MaxInFlight
    /\ bytes = WireLongest => ioWire = <<>>
    /\ BLen(ioWire) - BLen(FramesBytes(ioSent)) <= MaxStray
    /\ ioWire' = BCat(ioWire, bytes)
    /\ ioSent' = Append(ioSent, [ct |-> "raw", payload |-> bytes])
    /\ ioRes' = [op |-> "write", payload |-> bytes]

WireNext ==
    \/ \E bytes \in WireFrames : IoWrite(bytes)
    \/ IoReceive

\* This step is a receive that returned: it read the header at the start
\* of ioWire.
IoReceived == ioWire' # ioWire /\ ioRes'.op = "receive"

\* The fields of the header a receive step reads.
WireVersion == ReadU16(ioWire, 0)

WireContentType == BAt(ioWire, 2)

WireLength == ReadU16(ioWire, 3)

(***************************************************************************)
(* C12 - receive rejects a frame of version 0 whose header length is 0     *)
(* with NoPayload, and one whose header length is above MAX_PAYLOAD_LENGTH *)
(* with MessageTooLong(length); neither result carries a payload.          *)
(***************************************************************************)
C12_ReceiveRejectsBadLength ==
    [][(IoReceived /\ WireVersion = PTLS_VERSION) =>
         /\ WireLength = 0 => ioRes'.got = [st |-> "NoPayload"]
         /\ WireLength > MAX_PAYLOAD_LENGTH
              => ioRes'.got = [st |-> "MessageTooLong", arg |-> WireLength]]_vars

\* A receive has returned MessageTooLong(65535).
C12_Witness ==
    /\ ioRes.op = "receive"
    /\ ioRes.sent = [ct |-> "raw", payload |-> BOf(<<0, 0, 1, 255, 255>>)]
    /\ ioRes.got = [st |-> "MessageTooLong", arg |-> U16Max]

(***************************************************************************)
(* C13 - version gating: every record whose version field is not 0 is      *)
(* rejected with InappropriateVersion(version), whatever its length and    *)
(* content type fields are.                                                *)
(***************************************************************************)
C13_VersionCheckedFirst ==
    [][(IoReceived /\ WireVersion # PTLS_VERSION) =>
         ioRes'.got = [st |-> "InappropriateVersion", arg |-> WireVersion]]_vars

SpecContentTypeOf(b) ==
    CASE b = 0 -> "Handshake"
      [] b = 1 -> "ApplicationData"
      [] b = 2 -> "Alert"
      [] OTHER -> "Err"

C15_ThreeContentTypes ==
    [][(/\ IoReceived
        /\ WireVersion = PTLS_VERSION
        /\ WireLength >= 1
        /\ WireLength <= MAX_PAYLOAD_LENGTH) =>
         IF SpecContentTypeOf(WireContentType) = "Err"
            THEN ioRes'.got.st = "UnknownContentType"
            ELSE /\ ioRes'.got.st = "Ok"
                 /\ ioRes'.got.ct = SpecContentTypeOf(WireContentType)]_vars

(***************************************************************************)
(* crypto/hash_functions.rs, crypto/encryption.rs, crypto/signature.rs     *)
(***************************************************************************)
HashFunction == {"Sha224", "Sha256", "Sha384", "Sha512"}

\* `hash_type() as u8`
HashId(hf) ==
    CASE hf = "Sha224" -> 0
      [] hf = "Sha256" -> 1
      [] hf = "Sha384" -> 2
      [] hf = "Sha512" -> 3

\* HashFunction::try_from(u8)
HashFunctionTryFrom(b) ==
    CASE b = 0 -> "Sha224"
      [] b = 1 -> "Sha256"
      [] b = 2 -> "Sha384"
      [] b = 3 -> "Sha512"
      [] OTHER -> "Err"

\* <H as Digest>::output_size(), in bytes
OutputSize(hf) ==
    CASE hf = "Sha224" -> 28
      [] hf = "Sha256" -> 32
      [] hf = "Sha384" -> 48
      [] hf = "Sha512" -> 64

\* A key pair is [id, size]: size is n.bits() / 8.  The public and the
\* private key of a pair are the same value here; which one a function
\* holds is told by the function.
Key(id, size) == [id |-> id, size |-> size]

\* Encrypt::try_new and Decrypt::try_new
EncryptTryNew(hf, key) ==
    LET overhead == OutputSize(hf) * 2 + 2
        block_size == key.size
    IN  IF overhead >= block_size
            THEN Err("Crypto.HashFunctionOutputTooLarge")
            ELSE Ok([key |-> key, hf |-> hf, block_size |-> block_size,
                     available_block_size |-> block_size - overhead])

DecryptTryNew(hf, key) == EncryptTryNew(hf, key)

\* A mutant of SigningTryNew: a key of exactly the size of the overhead
\* is accepted.
SigningTryNewOffByOne(hf, key) ==
    IF key.size < OutputSize(hf) * 2 + 2
        THEN Err("Crypto.HashFunctionOutputTooLarge")
        ELSE Ok([key |-> key, hf |-> hf])

\* Signing::try_new and Verifying::try_new
SigningTryNew(hf, key) ==
    IF key.size <= OutputSize(hf) * 2 + 2
        THEN Err("Crypto.HashFunctionOutputTooLarge")
        ELSE Ok([key |-> key, hf |-> hf])

VerifyingTryNew(hf, key) == SigningTryNew(hf, key)

(***************************************************************************)
(* Payloads of the Tunnel model.  A payload is not spelled out in bytes:   *)
(* it is its length, its first byte and what it carries.                   *)
(*   plain : first is the first byte, body what the other bytes encode     *)
(*           (a serialized handshake message, or application bytes);       *)
(*   cipher: the output of Encrypt::encrypt for `plain` under the key      *)
(*           `key` (its id) and the hash `hf`; `first` is the first byte   *)
(*           of the ciphertext, which the RNG of the encryption decides.   *)
(***************************************************************************)
\* The values a first byte takes here; 4 stands for a byte that is no
\* handshake content type.
FirstBytes == 0 .. 4

Plain(first, body, len) ==
    [k |-> "plain", first |-> first, body |-> body, len |-> len]

\* Encrypt::encrypt: one block_size ciphertext block for every
\* available_block_size bytes of the payload (the last may be shorter).
EncryptedLen(f, n) == CeilDiv(n, f.available_block_size) * f.block_size

Encrypt(f, payload, first) ==
    [k |-> "cipher", first |-> first, key |-> f.key.id, hf |-> f.hf,
     bs |-> f.block_size, plain |-> payload,
     len |-> EncryptedLen(f, payload.len)]

\* Decrypt::decrypt_owned.  The blocks decrypt when they were encrypted to
\* this key with this hash; any other first block is an RSA error; a buffer
\* shorter than one block makes the slice of the first block panic.
DecryptOwned(f, payload) ==
    IF payload.len = 0 THEN Ok(payload)
    ELSE IF /\ payload.k = "cipher"
            /\ payload.key = f.key.id
            /\ payload.hf = f.hf
            /\ payload.bs = f.block_size
        THEN Ok(payload.plain)
    ELSE IF payload.len < f.block_size THEN Panic
    ELSE Err("Crypto.Rsa")

\* Signing::sign / Verifying::verify
Sign(f, msg) == [signer |-> f.key.id, hf |-> f.hf, msg |-> msg]

ForgedSignature == [signer |-> "nobody", hf |-> "Sha224", msg |-> 0]

Verify(f, msg, signature) ==
    IF /\ signature.signer = f.key.id
       /\ signature.hf = f.hf
       /\ signature.msg = msg
        THEN Ok(TRUE)
        ELSE Err("Crypto.Signature")

(***************************************************************************)
(* crypto/encryption.rs at the level of the bytes of the buffers.          *)
(* A ciphertext buffer is [bs, blocks, tail]: `blocks` are the blocks of   *)
(* bs bytes each that an RSA-OAEP encryption produced, in order; `tail`    *)
(* counts the bytes after them that are no whole block.  A block is        *)
(* [key, hf, chunk]: the plaintext chunk, the key (its id) and the hash it *)
(* was encrypted with.                                                     *)
(***************************************************************************)
\* A byte of the buffer of decrypt_owned that was never overwritten by a
\* plaintext byte: it is no value 0 .. 255 of the plaintext.
CipherByte == 256

Block(f, chunk) == [key |-> f.key.id, hf |-> f.hf, chunk |-> chunk]

Buffer(bs, blocks, tail) == [bs |-> bs, blocks |-> blocks, tail |-> tail]

\* payload.len() of a ciphertext buffer
BufferLen(buf) == Len(buf.blocks) * buf.bs + buf.tail

\* A mutant of encrypt: the payload is cut into chunks of block_size bytes.
encryptWholeBlocks(f, payload) ==
    LET block_count == CeilDiv(BLen(payload), f.block_size)
    IN  Ok(Buffer(f.block_size,
                  [i \in 1 .. block_count |->
                     Block(f, BTake(BDrop(payload, (i - 1) * f.block_size),
                                    f.block_size))],
                  0))

\* A mutant of encrypt: only the full chunks of the payload are encrypted.
encryptFullChunks(f, payload) ==
    LET block_count == BLen(payload) \div f.available_block_size
    IN  Ok(Buffer(f.block_size,
                  [i \in 1 .. block_count |->
                     Block(f, BTake(BDrop(payload,
                                          (i - 1) * f.available_block_size),
                                    f.available_block_size))],
                  0))

\* Encrypt::encrypt: one block for every available_block_size bytes of the
\* payload, the last chunk being what is left.  No chunk is longer than
\* OAEP allows, so the encryption of a chunk does not fail.
encrypt(f, payload) ==
    LET block_count == CeilDiv(BLen(payload), f.available_block_size)
    IN  Ok(Buffer(f.block_size,
                  [i \in 1 .. block_count |->
                     Block(f, BTake(BDrop(payload,
                                          (i - 1) * f.available_block_size),
                                    f.available_block_size))],
                  0))

\* private_key.decrypt of a whole block succeeds when the block was
\* encrypted to this key with this hash.
Decrypts(f, block) == block.key = f.key.id /\ block.hf = f.hf

\* A mutant of Region: the chunk of block i is copied to i * block_size.
RegionOfBlockSize(f, chunk) ==
    BCat(chunk, BRep(CipherByte, f.block_size - BLen(chunk)))

\* The bytes i * available_block_size .. (i + 1) * available_block_size of
\* the buffer after the chunk of block i was copied to its start.
Region(f, chunk) ==
    BCat(chunk, BRep(CipherByte, f.available_block_size - BLen(chunk)))

\* The regions of the blocks lo .. hi - 1, and total_len over these blocks.
RECURSIVE Regions(_, _, _, _)
Regions(f, blocks, lo, hi) ==
    IF hi <= lo THEN <<>>
    ELSE IF hi = lo + 1 THEN Region(f, blocks[lo].chunk)
    ELSE LET mid == (lo + hi) \div 2
         IN  BCat(Regions(f, blocks, lo, mid), Regions(f, blocks, mid, hi))

RECURSIVE TotalLen(_, _, _)
TotalLen(blocks, lo, hi) ==
    IF hi <= lo THEN 0
    ELSE IF hi = lo + 1 THEN BLen(blocks[lo].chunk)
    ELSE LET mid == (lo + hi) \div 2
         IN  TotalLen(blocks, lo, mid) + TotalLen(blocks, mid, hi)

\* Decrypt::decrypt_owned.  Block i is the slice
\* payload[i * block_size .. (i + 1) * block_size]: it decrypts when it is
\* a block encrypted to this key and hash, it is an RSA error when it is
\* block_size other bytes, and the slice panics when the buffer ends
\* before (i + 1) * block_size.  The chunks are copied into the buffer,
\* chunk i to i * available_block_size, and the buffer is truncated to the
\* sum of their lengths.
decrypt_owned(f, payload) ==
    LET length == BufferLen(payload)
        \* the blocks of the buffer that are slices of this decryption
        n == IF payload.bs = f.block_size THEN Len(payload.blocks) ELSE 0
        bad == {i \in 1 .. n : ~Decrypts(f, payload.blocks[i])}
        rest == length - n * f.block_size
    IN  IF bad # {} THEN Err("Crypto.Rsa")
        ELSE IF rest >= f.block_size THEN Err("Crypto.Rsa")
        ELSE IF rest > 0 THEN Panic
        ELSE Ok(BTake(BCat(Regions(f, payload.blocks, 1, n + 1),
                           BRep(CipherByte,
                                length - n * f.available_block_size)),
                      TotalLen(payload.blocks, 1, n + 1)))

(***************************************************************************)
(* SpecCrypto: the four primitives are constructed for a key and a hash,   *)
(* a payload is encrypted, the ciphertext reaches a decryption as it is or *)
(* altered, and is decrypted (crypto/encryption.rs, mod test).             *)
(***************************************************************************)
\* n.bits() / 8 of the keys: 512, 1024 and 2048 bits, and the sizes around
\* the point where the padding of SHA-224 and of SHA-256 stops fitting.
CryptoKeySizes == {58, 59, 64, 66, 67, 128, 256}

\* The longest payload that an encryption with f turns into a ciphertext
\* of at most u16::MAX bytes.
MaxPlain(f) == f.available_block_size * (U16Max \div f.block_size)

\* The payloads given to encrypt with f.
CryptoPayloads(f) ==
    { <<>>,
      BRep(7, 1),
      BRep(7, f.available_block_size),
      BCat(BRep(7, f.available_block_size), BRep(8, 1)),
      BOf(<<0, 1, 2, 3, 4, 5, 6, 7, 0, 1, 2, 3, 4, 5, 6, 7>>),
      BRep(170, 512),
      BCat(BRep(1, MaxPlain(f) - 1), BRep(2, 1)) }

\* What may happen to a ciphertext on its way to a decryption.
Alterations == {"cut", "grown", "foreign", "joined"}

Altered(buf, how) ==
    CASE how = "cut" ->
           IF buf.blocks = <<>> THEN buf
           ELSE Buffer(buf.bs, SubSeq(buf.blocks, 1, Len(buf.blocks) - 1),
                       buf.bs - 1)
      [] how = "grown" -> Buffer(buf.bs, buf.blocks, buf.tail + 1)
      [] how = "foreign" ->
           Buffer(buf.bs,
                  Append(buf.blocks, [key |-> "kx", hf |-> "Sha224",
                                      chunk |-> BRep(7, 1)]),
                  buf.tail)
      \* the ciphertext of a second message follows the ciphertext
      [] how = "joined" ->
           IF buf.blocks = <<>> THEN buf
           ELSE Buffer(buf.bs, buf.blocks \o <<buf.blocks[Len(buf.blocks)]>>,
                       buf.tail)

CryptoIdle == cr = [pc |-> "idle"]

\* Encrypt::try_new, Decrypt::try_new, Signing::try_new and
\* Verifying::try_new for one key pair and one hash.
CryptoTryNew(hf, size) ==
    /\ UNCHANGED <<ioVars, tunVars, ptlsVars>>
    /\ cr.pc = "idle"
    /\ cr' = [pc |-> "made", hf |-> hf, key |-> Key("k", size),
              enc |-> EncryptTryNew(hf, Key("k", size)),
              dec |-> DecryptTryNew(hf, Key("k", size)),
              sig |-> SigningTryNew(hf, Key("k", size)),
              ver |-> VerifyingTryNew(hf, Key("k", size))]

CryptoEncrypt ==
    /\ UNCHANGED <<ioVars, tunVars, ptlsVars>>
    /\ cr.pc = "made"
    /\ cr.enc.st = "Ok"
    /\ \E payload \in CryptoPayloads(cr.enc.v) :
         cr' = [pc |-> "encrypted", hf |-> cr.hf, key |-> cr.key,
                enc |-> cr.enc, dec |-> cr.dec,
                plain |-> payload, altered |-> FALSE,
                res |-> encrypt(cr.enc.v, payload)]

CryptoAlter(how) ==
    /\ UNCHANGED <<ioVars, tunVars, ptlsVars>>
    /\ cr.pc = "encrypted"
    /\ ~cr.altered
    /\ Altered(cr.res.v, how) # cr.res.v
    /\ cr' = [cr EXCEPT !.altered = TRUE, !.res = Ok(Altered(cr.res.v, how))]

\* The decryptions a ciphertext may reach: the one of the key pair and the
\* hash it was encrypted with, one with another hash, one with another key.
Decryptors ==
    {cr.dec}
    \cup {DecryptTryNew(hf, cr.key) : hf \in {"Sha224", "Sha256"}}
    \cup {DecryptTryNew(cr.hf, Key("kx", cr.key.size))}

CryptoDecryptOwned ==
    /\ UNCHANGED <<ioVars, tunVars, ptlsVars>>
    /\ cr.pc = "encrypted"
    /\ \E d \in Decryptors :
         /\ d.st = "Ok"
         /\ cr' = [pc |-> "decrypted", hf |-> cr.hf, key |-> cr.key,
                   enc |-> cr.enc, dec |-> cr.dec,
                   plain |-> cr.plain, altered |-> cr.altered,
                   buf |-> cr.res.v, by |-> d.v,
                   res |-> decrypt_owned(d.v, cr.res.v)]

CryptoNext ==
    \/ \E hf \in HashFunction, size \in CryptoKeySizes : CryptoTryNew(hf, size)
    \/ CryptoEncrypt
    \/ \E how \in Alterations : CryptoAlter(how)
    \/ CryptoDecryptOwned

(***************************************************************************)
(* C16 - padding feasibility: each of Encrypt::try_new, Decrypt::try_new,  *)
(* Signing::try_new and Verifying::try_new fails with                      *)
(* HashFunctionOutputTooLarge exactly when                                 *)
(* 2 * hash_output_size + 2 >= key_size_bytes, and succeeds otherwise; so  *)
(* SHA-256 fails with a 512-bit key and succeeds with a 1024-bit key.      *)
(***************************************************************************)
C16_PaddingFeasibility ==
    cr.pc = "made" =>
      \A made \in {cr.enc, cr.dec, cr.sig, cr.ver} :
        IF 2 * OutputSize(cr.hf) + 2 >= cr.key.size
           THEN made = Err("Crypto.HashFunctionOutputTooLarge")
           ELSE made.st = "Ok"

\* The four constructors have failed for SHA-256 and a 512-bit key.
C16_Witness ==
    /\ cr.pc = "made"
    /\ cr.hf = "Sha256"
    /\ cr.key.size = 64
    /\ cr.enc.st = "Err" /\ cr.dec.st = "Err"
    /\ cr.sig.st = "Err" /\ cr.ver.st = "Err"

(***************************************************************************)
(* C17 - crypto round-trip: with the Decrypt of the key pair and the hash  *)
(* of the Encrypt, decrypt_owned leaves exactly p in the buffer that       *)
(* encrypt(p) returned, for every p of at most                             *)
(* (K - 2H - 2) * floor(65535 / K) bytes, whether p takes one block or     *)
(* several and whether its last block is full or not.                      *)
(***************************************************************************)
C17_CryptoRoundTrip ==
    (/\ cr.pc = "decrypted"
     /\ ~cr.altered
     /\ cr.by = cr.dec.v
     /\ BLen(cr.plain) <= (cr.key.size - 2 * OutputSize(cr.hf) - 2)
                            * (U16Max \div cr.key.size))
    => cr.res = Ok(cr.plain)

\* A payload of several blocks, the last of them partial, has come back.
C17_Witness ==
    /\ cr.pc = "decrypted"
    /\ ~cr.altered
    /\ cr.by = cr.dec.v
    /\ Len(cr.buf.blocks) >= 2
    /\ BLen(cr.buf.blocks[Len(cr.buf.blocks)].chunk)
         < cr.by.available_block_size
    /\ cr.res = Ok(cr.plain)

(***************************************************************************)
(* C18 - scenario S6: with a 1024-bit RSA key and SHA-256, the ciphertext  *)
(* of a 512-byte payload is exactly 2 x 128 = 256 bytes long, and          *)
(* decrypting it gives back the identical 512 bytes.                       *)
(***************************************************************************)
S6 ==
    /\ cr.pc \in {"encrypted", "decrypted"}
    /\ ~cr.altered
    /\ cr.key.size = 128
    /\ cr.hf = "Sha256"
    /\ cr.plain = BRep(170, 512)

C18_S6TwoBlocks ==
    /\ (S6 /\ cr.pc = "encrypted") => BufferLen(cr.res.v) = 2 * 128
    /\ (S6 /\ cr.pc = "decrypted" /\ cr.by = cr.dec.v)
         => BufferLen(cr.buf) = 2 * 128 /\ cr.res = Ok(cr.plain)

(***************************************************************************)
(* C18, as the code has it: a block of 128 bytes carries 128 - 2 * 32 - 2  *)
(* = 62 bytes of plaintext, so the ciphertext of the 512 bytes of S6 is    *)
(* 9 x 128 = 1152 bytes long; decrypting it gives back the 512 bytes.      *)
(***************************************************************************)
C18_S6NineBlocks ==
    /\ (S6 /\ cr.pc = "encrypted") => BufferLen(cr.res.v) = 9 * 128
    /\ (S6 /\ cr.pc = "decrypted" /\ cr.by = cr.dec.v)
         => BufferLen(cr.buf) = 9 * 128 /\ cr.res = Ok(cr.plain)

\* The 512 bytes of S6 have come back from their ciphertext.
C18_Witness ==
    /\ S6
    /\ cr.pc = "decrypted"
    /\ cr.by = cr.dec.v
    /\ cr.res = Ok(BRep(170, 512))

(***************************************************************************)
(* C19 - decrypt_owned rejects with an error value every ciphertext whose  *)
(* length in bytes is not a multiple of the key size in bytes: it neither  *)
(* panics nor returns plaintext.                                           *)
(***************************************************************************)
C19_RejectsPartialBlock ==
    (/\ cr.pc = "decrypted"
     /\ BufferLen(cr.buf) % cr.by.block_size # 0)
    => cr.res.st = "Err"

(***************************************************************************)
(* C36 - encrypt chunking: Encrypt::encrypt splits an n-byte payload into  *)
(* consecutive chunks of K - 2H - 2 bytes, the last possibly shorter, and  *)
(* emits one K-byte block for each, so that the ciphertext is exactly      *)
(* ceil(n / (K - 2H - 2)) * K bytes long (0 for the empty payload).        *)
(***************************************************************************)
C36_EncryptChunking ==
    (cr.pc = "encrypted" /\ ~cr.altered) =>
        LET n == BLen(cr.plain)
            K == cr.key.size
            chunk_size == K - 2 * OutputSize(cr.hf) - 2
            count == CeilDiv(n, chunk_size)
        IN  /\ cr.res.st = "Ok"
            /\ cr.res.v.bs = K
            /\ cr.res.v.tail = 0
            /\ Len(cr.res.v.blocks) = count
            /\ BufferLen(cr.res.v) = count * K
            /\ \A i \in 1 .. count :
                 /\ cr.res.v.blocks[i].chunk =
                      BTake(BDrop(cr.plain, (i - 1) * chunk_size), chunk_size)
                 /\ BLen(cr.res.v.blocks[i].chunk) =
                      Min(chunk_size, n - (i - 1) * chunk_size)

\* A payload was encrypted into several blocks, the last chunk shorter.
C36_Witness ==
    /\ cr.pc = "encrypted"
    /\ ~cr.altered
    /\ Len(cr.res.v.blocks) >= 2
    /\ BLen(cr.plain) % cr.enc.v.available_block_size # 0
    /\ BufferLen(cr.res.v) = Len(cr.res.v.blocks) * cr.key.size

\* The plaintexts of the blocks lo .. hi - 1, one after the other.
RECURSIVE Plaintexts(_, _, _)
Plaintexts(blocks, lo, hi) ==
    IF hi <= lo THEN <<>>
    ELSE IF hi = lo + 1 THEN blocks[lo].chunk
    ELSE LET mid == (lo + hi) \div 2
         IN  BCat(Plaintexts(blocks, lo, mid), Plaintexts(blocks, mid, hi))

(***************************************************************************)
(* C37 - decrypt chunking: when the buffer is made of whole K-byte blocks  *)
(* that each decrypt, decrypt_owned leaves in it exactly the plaintexts of *)
(* the blocks one after the other, in order - also when a block that is    *)
(* not the last decrypts to fewer than K - 2H - 2 bytes.                   *)
(***************************************************************************)
C37_DecryptChunking ==
    (/\ cr.pc = "decrypted"
     /\ cr.buf.bs = cr.by.block_size
     /\ cr.buf.tail = 0
     /\ \A i \in 1 .. Len(cr.buf.blocks) : Decrypts(cr.by, cr.buf.blocks[i]))
    => cr.res = Ok(Plaintexts(cr.buf.blocks, 1, Len(cr.buf.blocks) + 1))

(***************************************************************************)
(* sub_protocol/handshake.rs: the messages and their serialization         *)
(***************************************************************************)
\* `HandshakeContentType::X as u8`
HandshakeContentTypeAsU8(t) ==
    CASE t = "ClientHello" -> 0
      [] t = "EncryptedClientHello" -> 1
      [] t = "ServerHello" -> 2
      [] t = "Finished" -> 3

\* HandshakeContentType::try_from(u8)
HandshakeContentTypeTryFrom(b) ==
    CASE b = 0 -> "ClientHello"
      [] b = 1 -> "EncryptedClientHello"
      [] b = 2 -> "ServerHello"
      [] b = 3 -> "Finished"
      [] OTHER -> "Err"

\* A DER-encoded public key (to_public_key_der), or bytes that are none.
Der(key) == [valid |-> TRUE, id |-> key.id, size |-> key.size]

BadDer == [valid |-> FALSE, id |-> "nobody", size |-> 0]

\* The length of the SubjectPublicKeyInfo encoding of an RSA public key.
DerLen(der) ==
    IF ~der.valid THEN 4
    ELSE CASE der.size = 64 -> 94
           [] der.size = 128 -> 162
           [] OTHER -> der.size + 38

\* RsaPublicKey::from_public_key_der
FromPublicKeyDer(der) ==
    IF der.valid THEN Ok(Key(der.id, der.size)) ELSE Err("InvalidPublicKey")

\* The nonce of a Finished / EncryptedClientHello: 8 bytes, named by a number.
RandomLen == 8

ClientHello(public_key, signature_hf, padding_hf) ==
    [type |-> "ClientHello", public_key |-> public_key,
     signature_hf |-> signature_hf, padding_hf |-> padding_hf]

EncryptedClientHello(public_key, signature_hf, padding_hf, random, sig) ==
    [type |-> "EncryptedClientHello", public_key |-> public_key,
     signature_hf |-> signature_hf, padding_hf |-> padding_hf,
     random |-> random, random_signature |-> sig, sig_len |-> public_key.size]

ServerHello(public_key, signature_hf, padding_hf) ==
    [type |-> "ServerHello", public_key |-> public_key,
     signature_hf |-> signature_hf, padding_hf |-> padding_hf]

Finished(random, sig, sig_len) ==
    [type |-> "Finished", random |-> random, random_signature |-> sig,
     sig_len |-> sig_len]

\* bincode::serialize: a Vec<u8> is an 8-byte length and its bytes, an
\* i64 / u64 is 8 bytes, a u8 is 1 byte.
SerializedLen(m) ==
    CASE m.type = "ClientHello" -> 8 + DerLen(m.public_key) + 1 + 1
      [] m.type = "EncryptedClientHello" ->
            8 + DerLen(m.public_key) + 1 + 1 + 8 + RandomLen + 8 + m.sig_len
      [] m.type = "ServerHello" ->
            8 + DerLen(m.public_key) + 8 + 1 + 1 + 8 + 8
      [] m.type = "Finished" -> 8 + RandomLen + 8 + m.sig_len

\* `vec![X as u8]` followed by the serialized message.
HandshakePayload(m) ==
    Plain(HandshakeContentTypeAsU8(m.type), m, 1 + SerializedLen(m))

\* Application bytes: n bytes, the first of them b.
Bytes(b, n) == Plain(b, [type |-> "bytes"], n)

\* bincode::deserialize::<T>(&payload[1..]).  The bytes of a T give the T;
\* the bytes of an EncryptedClientHello begin with the bytes of a
\* ClientHello, and trailing bytes are allowed; anything else does not
\* parse.
Deserialize(type, payload) ==
    IF payload.k # "plain" THEN Err("InvalidPayload")
    ELSE IF payload.body.type = type THEN Ok(payload.body)
    ELSE IF type = "ClientHello" /\ payload.body.type = "EncryptedClientHello"
        THEN Ok(ClientHello(payload.body.public_key,
                            payload.body.signature_hf,
                            payload.body.padding_hf))
    ELSE Err("InvalidPayload")

(***************************************************************************)
(* tunnel/mod.rs: Tunnel                                                   *)
(***************************************************************************)
P == {"client", "server"}

Peer(p) == IF p = "client" THEN "server" ELSE "client"

TunnelState == {"Handshake", "Application", "Terminated",
                "GracefullyDisconnected"}

\* Tunnel::new.  The local functions were built by the caller with
\* DecryptFunction::try_new / SigningFunction::try_new.
TunnelNew(local_decrypt, local_signing) ==
    [signed_public |-> None,
     local_decrypt |-> local_decrypt,
     local_signing |-> local_signing,
     peer_encrypt |-> None,
     peer_verifying |-> None,
     state |-> "Handshake"]

\* A result of a Tunnel method together with the Tunnel it leaves behind.
Ret(t, res) == [t |-> t, res |-> res]

\* Tunnel::set_peer_public_key.  peer_encrypt is built with signature_hf
\* and peer_verifying with padding_hf; peer_encrypt is already assigned
\* when the construction of peer_verifying fails.
SetPeerPublicKeyOutcome(t, public_key, padding_hf, signature_hf) ==
    LET enc == EncryptTryNew(signature_hf, public_key)
        ver == VerifyingTryNew(padding_hf, public_key)
    IN  IF enc.st # "Ok" THEN Ret(t, enc)
        ELSE IF ver.st # "Ok"
            THEN Ret([t EXCEPT !.peer_encrypt = Some(enc.v)], ver)
        ELSE Ret([t EXCEPT !.peer_encrypt = Some(enc.v),
                           !.peer_verifying = Some(ver.v)], Ok(TRUE))

\* Tunnel::set_signed_public_key
SetSignedPublicKeyOutcome(t, signed_public_key) ==
    [t EXCEPT !.signed_public = Some(signed_public_key)]

\* The public key of a Tunnel's own pair:
\* RsaPublicKey::from((*self.local_decrypt).as_ref()).
LocalPublic(t) == t.local_decrypt.key

(***************************************************************************)
(* tunnel/encrypted_tunnel.rs.  The carriers of the Tunnel model hold the  *)
(* frames IoWrapper::send wrote, whole and in order; IoWrapper::receive    *)
(* returns the first of them.                                              *)
(***************************************************************************)
Frame(ct, payload) == [ct |-> ct, payload |-> payload]

\* Tunnel::send_internal: the result and the frames written.
SendInternalOutcome(t, content_type, payload, first) ==
    IF ~t.peer_encrypt.some THEN [res |-> Err("NoPublicKey"), out |-> <<>>]
    ELSE LET encrypted_payload == Encrypt(t.peer_encrypt.v, payload, first)
             sent == IoSendResult(encrypted_payload.len)
         IN  IF sent.st # "Ok"
                 THEN [res |-> Err("IoWrapper." \o sent.st), out |-> <<>>]
                 ELSE [res |-> Ok(TRUE),
                       out |-> <<Frame(content_type, encrypted_payload)>>]

\* Tunnel::receive_internal on the frame IoWrapper::receive returned.
ReceiveInternalOutcome(t, frame) ==
    LET dec == DecryptOwned(t.local_decrypt, frame.payload)
    IN  IF dec.st # "Ok" THEN dec
        ELSE Ok(Frame(frame.ct, dec.v))

(***************************************************************************)
(* tunnel/handshake_subprotocol.rs: Tunnel::server_handshake.              *)
(* One iteration of its loop, on the frame io_wrapper.receive returned.    *)
(* The result is "Loop" when the loop goes on to the next receive.         *)
(***************************************************************************)
Loop == [st |-> "Loop", err |-> ""]

SIter(t, client_hello, out, res) ==
    [t |-> t, client_hello |-> client_hello, out |-> out, res |-> res]

\* A mutant of ServerVerify: the call ends without verifying the signature.
ServerVerifyUnchecked(t, client_hello, out, has_random, msg) ==
    IF ~has_random THEN SIter(t, client_hello, out, Loop)
    ELSE SIter(t, client_hello, out, Ok(TRUE))

\* `if let Some((random, random_signature)) = random`
ServerVerify(t, client_hello, out, has_random, msg) ==
    IF ~has_random THEN SIter(t, client_hello, out, Loop)
    ELSE IF ~t.peer_verifying.some
        THEN SIter(t, client_hello, out, Err("Handshake.InvalidContentType"))
    ELSE LET v == Verify(t.peer_verifying.v, msg.random, msg.random_signature)
         IN  SIter(t, client_hello, out, IF v.st = "Ok" THEN Ok(TRUE) ELSE v)

\* A mutant of RepliesTo: a ServerHello answers every accepted hello.
RepliesToAny(handshake_content_type) == TRUE

\* `if handshake_content_type == HandshakeContentType::ClientHello`
RepliesTo(handshake_content_type) == handshake_content_type = "ClientHello"

\* A mutant of SignedPublicMissing: the signed public key is asked for
\* only when a ServerHello has to be built.
SignedPublicMissingForReply(t, handshake_content_type) ==
    ~t.signed_public.some /\ handshake_content_type = "ClientHello"

\* `self.signed_public.as_ref().ok_or(Error::InvalidPayload)?`, for a hello
\* of either type.
SignedPublicMissing(t, handshake_content_type) == ~t.signed_public.some

\* `if let Some((public_key, signature_hf, padding_hf)) = credentials`
ServerCredentials(t, tag, msg, first) ==
    LET public_key == FromPublicKeyDer(msg.public_key)
        signature_hf == HashFunctionTryFrom(msg.signature_hf)
        padding_hf == HashFunctionTryFrom(msg.padding_hf)
        fail(tt, e) == SIter(tt, FALSE, <<>>, e)
    IN  IF public_key.st # "Ok" THEN fail(t, public_key)
        ELSE IF signature_hf = "Err" \/ padding_hf = "Err"
            THEN fail(t, Err("Crypto.InvalidHashFunction"))
        ELSE IF SignedPublicMissing(t, tag)
            THEN fail(t, Err("InvalidPayload"))
        ELSE
          LET enc == EncryptTryNew(padding_hf, public_key.v)
              ver == VerifyingTryNew(signature_hf, public_key.v)
              t1 == [t EXCEPT !.peer_encrypt = Some(enc.v)]
              t2 == [t1 EXCEPT !.peer_verifying = Some(ver.v)]
              server_hello ==
                  ServerHello(Der(t.signed_public.v.public_key),
                              HashId(t.local_signing.hf),
                              HashId(t.local_decrypt.hf))
              sent == SendInternalOutcome(t2, "Handshake",
                                          HandshakePayload(server_hello), first)
          IN  IF enc.st # "Ok" THEN fail(t, enc)
              ELSE IF ver.st # "Ok" THEN fail(t1, ver)
              ELSE IF RepliesTo(tag)
                  THEN IF sent.res.st # "Ok" THEN fail(t2, sent.res)
                       ELSE SIter(t2, TRUE, sent.out, Loop)
              ELSE ServerVerify(t2, TRUE, <<>>, TRUE, msg)

\* A mutant of MatchArm: the guards on client_hello are left out.
MatchArmUnguarded(handshake_content_type, client_hello) ==
    CASE handshake_content_type = "EncryptedClientHello" -> "ech"
      [] handshake_content_type = "ClientHello" -> "ch"
      [] handshake_content_type = "Finished" -> "fin"
      [] OTHER -> "none"

\* `match handshake_content_type`: the arm taken.
MatchArm(handshake_content_type, client_hello) ==
    CASE handshake_content_type = "EncryptedClientHello"
           /\ ~client_hello -> "ech"
      [] handshake_content_type = "ClientHello"
           /\ ~client_hello -> "ch"
      [] handshake_content_type = "Finished"
           /\ client_hello -> "fin"
      [] OTHER -> "none"

ServerIteration(t, client_hello, frame, first) ==
    LET content_type == frame.ct
        raw == frame.payload
        fail(e) == SIter(t, client_hello, <<>>, e)
    IN  IF raw.len <= 2 THEN fail(Err("IoWrapper.NoPayload"))
        ELSE
          LET handshake_content_type == HandshakeContentTypeTryFrom(raw.first)
              dec == IF handshake_content_type # "ClientHello"
                        THEN DecryptOwned(t.local_decrypt, raw)
                        ELSE Ok(raw)
              arm == MatchArm(handshake_content_type, client_hello)
              msg == Deserialize(handshake_content_type, dec.v)
          IN  IF handshake_content_type = "Err"
                  THEN fail(Err("Handshake.InvalidContentType"))
              ELSE IF content_type # "Handshake"
                  THEN fail(Err("Handshake.InvalidContentType"))
              ELSE IF dec.st # "Ok" THEN fail(dec)
              ELSE IF arm = "none"
                  THEN fail(Err("Handshake.InvalidContentType"))
              ELSE IF msg.st # "Ok" THEN fail(msg)
              ELSE IF arm = "fin"
                  THEN ServerVerify(t, client_hello, <<>>, TRUE, msg.v)
              ELSE ServerCredentials(t, handshake_content_type, msg.v, first)

(***************************************************************************)
(* Tunnel::full_handshake.                                                 *)
(***************************************************************************)
\* A mutant of ClientHelloOf: the two hashes are advertised in each
\* other's place.
ClientHelloSwapped(t) ==
    HandshakePayload(ClientHello(Der(LocalPublic(t)),
                                 HashId(t.local_decrypt.hf),
                                 HashId(t.local_signing.hf)))

\* The ClientHello full_handshake sends with io_wrapper.send, unencrypted.
ClientHelloOf(t) ==
    HandshakePayload(ClientHello(Der(LocalPublic(t)),
                                 HashId(t.local_signing.hf),
                                 HashId(t.local_decrypt.hf)))

\* full_handshake from its receive_internal on: `frame` is the frame
\* io_wrapper.receive returned.
FullHandshakeReceive(t, frame) ==
    LET got == ReceiveInternalOutcome(t, frame)
        content_type == got.v.ct
        payload == got.v.payload
        tag == HandshakeContentTypeTryFrom(payload.first)
        server_hello == Deserialize("ServerHello", payload)
        server_public == FromPublicKeyDer(server_hello.v.public_key)
        padding_hf == HashFunctionTryFrom(server_hello.v.padding_hf)
        signature_hf == HashFunctionTryFrom(server_hello.v.signature_hf)
        enc == EncryptTryNew(padding_hf, server_public.v)
        ver == VerifyingTryNew(signature_hf, server_public.v)
        t1 == [t EXCEPT !.peer_encrypt = Some(enc.v)]
        t2 == [t1 EXCEPT !.peer_verifying = Some(ver.v)]
    IN  IF got.st # "Ok" THEN Ret(t, got)
        ELSE IF content_type # "Handshake" \/ payload.len <= 2
            THEN Ret(t, Err("Handshake.InvalidContentType"))
        ELSE IF tag # "ServerHello"
            THEN Ret(t, Err("Handshake.InvalidContentType"))
        ELSE IF server_hello.st # "Ok" THEN Ret(t, server_hello)
        ELSE IF server_public.st # "Ok"
            THEN Ret(t, Err("Handshake.InappropriatePublicKey"))
        ELSE IF padding_hf = "Err"
            THEN Ret(t, Err("Crypto.InvalidHashFunction"))
        ELSE IF enc.st # "Ok" THEN Ret(t, enc)
        ELSE IF signature_hf = "Err"
            THEN Ret(t1, Err("Crypto.InvalidHashFunction"))
        ELSE IF ver.st # "Ok" THEN Ret(t1, ver)
        ELSE Ret(t2, Ok(TRUE))

(***************************************************************************)
(* SpecTunnel: a client Tunnel and a server Tunnel joined by two carriers  *)
(* (tunnel_pair!).  The client calls full_handshake, the server            *)
(* server_handshake; while no handshake call of a Tunnel is running, its   *)
(* application may call set_peer_public_key, set_signed_public_key,        *)
(* send_internal and receive_internal; and the remote end of a carrier     *)
(* may write frames of its own making.                                     *)
(***************************************************************************)
\* Application and remote-end operations in one behaviour.
MaxTunnelOps == 1

\* Handshake calls of one Tunnel in one behaviour.
MaxHandshakes == 2

\* Frames that may wait on one carrier.
MaxTunnelInFlight == 2

\* The key size (bytes) and the hashes of a Tunnel's local_decrypt and
\* local_signing; each is one for which try_new succeeds.
TunnelConfigs ==
    { [size |-> 64, padding_hf |-> "Sha224", signature_hf |-> "Sha224"],
      [size |-> 128, padding_hf |-> "Sha256", signature_hf |-> "Sha384"] }

\* The same for the runs of one full handshake with no other traffic.
HandshakeConfigs ==
    TunnelConfigs \cup
    { [size |-> 128, padding_hf |-> "Sha384", signature_hf |-> "Sha256"],
      [size |-> 256, padding_hf |-> "Sha512", signature_hf |-> "Sha224"] }

KeyId(p) == IF p = "client" THEN "kc" ELSE "ks"

\* A key pair that belongs to neither Tunnel.
OtherKey == Key("kx", 64)

TunnelOf(p, c) ==
    TunnelNew(DecryptTryNew(c.padding_hf, Key(KeyId(p), c.size)).v,
              SigningTryNew(c.signature_hf, Key(KeyId(p), c.size)).v)

\* The SignedPublicKey the full_handshake test installs.
OwnSignedPublicKey(t) == [public_key |-> LocalPublic(t)]

NoCall == [pc |-> "idle", client_hello |-> FALSE,
           res |-> [st |-> "None", err |-> ""], calls |-> 0, got |-> "None",
           run |-> <<>>]

TNone == [op |-> "none", who |-> "nobody", res |-> [st |-> "None", err |-> ""],
          touched |-> FALSE, failed |-> FALSE]

TunIdle ==
    /\ tun = <<>>
    /\ twire = <<>>
    /\ hs = <<>>
    /\ tLast = TNone
    /\ tOps = 0

\* signed: the server starts with its SignedPublicKey installed.
TunStart(signed, configs) ==
    /\ \E cc \in configs, cs \in configs :
         tun = [p \in P |->
                  IF p = "client" THEN TunnelOf(p, cc)
                  ELSE IF signed
                      THEN SetSignedPublicKeyOutcome(
                               TunnelOf(p, cs), OwnSignedPublicKey(TunnelOf(p, cs)))
                      ELSE TunnelOf(p, cs)]
    /\ twire = [p \in P |-> <<>>]
    /\ hs = [p \in P |-> NoCall]
    /\ tLast = TNone
    /\ tOps = 0

\* A handshake call of p has returned an error or panicked.
HandshakeFailed(p) == hs[p].res.st \in {"Err", "Panic"}

Touched(w) == w # twire

Note(op, p, res, w) ==
    [op |-> op, who |-> p, res |-> [st |-> res.st, err |-> IF res.st = "Ok" THEN "" ELSE res.err],
     touched |-> Touched(w), failed |-> HandshakeFailed(p)]

Quiet(p) == hs[p].pc # "await"

(* ---- the client's full_handshake ---- *)
\* The call up to its first suspension in receive_internal: ClientHello
\* is written with io_wrapper.send.
FullHandshakeCall ==
    LET p == "client"
        sent == IoSendResult(ClientHelloOf(tun[p]).len)
        w == [twire EXCEPT ![Peer(p)] =
                 Append(@, Frame("Handshake", ClientHelloOf(tun[p])))]
    IN  /\ Quiet(p)
        /\ hs[p].calls < MaxHandshakes
        /\ Len(twire[Peer(p)]) < MaxTunnelInFlight
        /\ sent.st = "Ok"
        /\ twire' = w
        /\ hs' = [hs EXCEPT ![p] = [pc |-> "await", client_hello |-> FALSE,
                                    res |-> [st |-> "None", err |-> ""],
                                    calls |-> @.calls + 1, got |-> "None",
                                    run |-> <<>>]]
        /\ tLast' = Note("full_handshake", p, [st |-> "None", err |-> ""], w)
        /\ UNCHANGED <<tun, tOps, ioVars, ptlsVars, cryptoVars>>

\* The rest of the call, once a frame has arrived.
FullHandshakeReturn ==
    LET p == "client"
        r == FullHandshakeReceive(tun[p], Head(twire[p]))
        w == [twire EXCEPT ![p] = Tail(@)]
    IN  /\ hs[p].pc = "await"
        /\ twire[p] # <<>>
        /\ tun' = [tun EXCEPT ![p] = r.t]
        /\ twire' = w
        /\ hs' = [hs EXCEPT ![p].pc = "done",
                            ![p].res = [st |-> r.res.st,
                                        err |-> IF r.res.st = "Ok" THEN "" ELSE r.res.err],
                            ![p].got = Head(twire[p]).ct]
        /\ tLast' = [Note("full_handshake", p, r.res, w) EXCEPT !.failed = FALSE]
        /\ UNCHANGED <<tOps, ioVars, ptlsVars, cryptoVars>>

(* ---- the server's server_handshake ---- *)
ServerHandshakeCall ==
    LET p == "server"
    IN  /\ Quiet(p)
        /\ hs[p].calls < MaxHandshakes
        /\ hs' = [hs EXCEPT ![p] = [pc |-> "await", client_hello |-> FALSE,
                                    res |-> [st |-> "None", err |-> ""],
                                    calls |-> @.calls + 1, got |-> "None",
                                    run |-> <<>>]]
        /\ tLast' = Note("server_handshake", p, [st |-> "None", err |-> ""], twire)
        /\ UNCHANGED <<tun, twire, tOps, ioVars, ptlsVars, cryptoVars>>

\* One iteration of the loop: a frame is received and handled; the call
\* returns, or suspends in the next receive.
ServerHandshakeStep ==
    LET p == "server" IN
    /\ hs[p].pc = "await"
    /\ twire[p] # <<>>
    /\ \E first \in FirstBytes :
        LET r == ServerIteration(tun[p], hs[p].client_hello, Head(twire[p]), first)
            w == [twire EXCEPT ![p] = Tail(@), ![Peer(p)] = @ \o r.out]
        IN  /\ r.out # <<>> => Len(twire[Peer(p)]) < MaxTunnelInFlight
            /\ tun' = [tun EXCEPT ![p] = r.t]
            /\ twire' = w
            /\ hs' = [hs EXCEPT
                        ![p].pc = IF r.res.st = "Loop" THEN "await" ELSE "done",
                        ![p].client_hello = r.client_hello,
                        ![p].res = IF r.res.st = "Loop"
                                      THEN [st |-> "None", err |-> ""]
                                      ELSE [st |-> r.res.st,
                                            err |-> IF r.res.st = "Ok" THEN "" ELSE r.res.err],
                        ![p].got = Head(twire[p]).ct,
                        ![p].run = Append(@, [frame |-> Head(twire[p]),
                                              st |-> r.res.st])]
            /\ tLast' = [Note("server_handshake", p, r.res, w) EXCEPT !.failed = FALSE]
            /\ UNCHANGED <<tOps, ioVars, ptlsVars, cryptoVars>>

(* ---- operations of the application, outside a handshake call ---- *)
CanOp(p) == Quiet(p) /\ tOps < MaxTunnelOps

\* Tunnel::set_signed_public_key
SetSignedPublicKey(p) ==
    /\ CanOp(p)
    /\ tun' = [tun EXCEPT ![p] = SetSignedPublicKeyOutcome(@, OwnSignedPublicKey(@))]
    /\ tLast' = Note("set_signed_public_key", p, Ok(TRUE), twire)
    /\ tOps' = tOps + 1
    /\ UNCHANGED <<twire, hs, ioVars, ptlsVars, cryptoVars>>

\* Tunnel::set_peer_public_key, with a key and hashes of the caller's choice.
SetPeerPublicKey(p) ==
    /\ CanOp(p)
    /\ \E public_key \in {LocalPublic(tun[Peer(p)]), OtherKey},
          padding_hf \in {"Sha224", tun[Peer(p)].local_decrypt.hf},
          signature_hf \in {"Sha224", tun[Peer(p)].local_signing.hf} :
        LET r == SetPeerPublicKeyOutcome(tun[p], public_key, padding_hf, signature_hf)
        IN  /\ tun' = [tun EXCEPT ![p] = r.t]
            /\ tLast' = Note("set_peer_public_key", p, r.res, twire)
    /\ tOps' = tOps + 1
    /\ UNCHANGED <<twire, hs, ioVars, ptlsVars, cryptoVars>>

\* What an application gives send_internal: application bytes, or a
\* handshake message of its own (the Finished and the
\* EncryptedClientHello no method of Tunnel sends).
NonceSet == {1}

OwnMessages(t) ==
    { Bytes(7, 5) }
    \cup { HandshakePayload(Finished(n, Sign(t.local_signing, n),
                                     t.local_signing.key.size)) : n \in NonceSet }
    \cup { HandshakePayload(Finished(n, ForgedSignature,
                                     t.local_signing.key.size)) : n \in NonceSet }
    \cup { HandshakePayload(
               EncryptedClientHello(Der(LocalPublic(t)), HashId(t.local_signing.hf),
                                    HashId(t.local_decrypt.hf), n,
                                    Sign(t.local_signing, n))) : n \in NonceSet }

\* Tunnel::send_internal
SendInternal(p) ==
    /\ CanOp(p)
    /\ Len(twire[Peer(p)]) < MaxTunnelInFlight
    /\ \E content_type \in {"Handshake", "ApplicationData"},
          payload \in OwnMessages(tun[p]), first \in FirstBytes :
        LET r == SendInternalOutcome(tun[p], content_type, payload, first)
            w == [twire EXCEPT ![Peer(p)] = @ \o r.out]
        IN  /\ twire' = w
            /\ tLast' = Note("send_internal", p, r.res, w)
    /\ tOps' = tOps + 1
    /\ UNCHANGED <<tun, hs, ioVars, ptlsVars, cryptoVars>>

\* Tunnel::receive_internal, when a frame has arrived.
ReceiveInternal(p) ==
    /\ CanOp(p)
    /\ twire[p] # <<>>
    /\ LET r == ReceiveInternalOutcome(tun[p], Head(twire[p]))
           w == [twire EXCEPT ![p] = Tail(@)]
       IN  /\ twire' = w
           /\ tLast' = Note("receive_internal", p,
                            IF r.st = "Ok" THEN Ok(TRUE) ELSE r, w)
    /\ tOps' = tOps + 1
    /\ UNCHANGED <<tun, hs, ioVars, ptlsVars, cryptoVars>>

(* ---- the remote end of a carrier writing frames of its own ---- *)
\* Frames IoWrapper::send can have written that no Tunnel method writes.
ForeignFrames ==
    { Frame("Handshake", Bytes(0, 2)),
      Frame("Handshake", Bytes(4, 5)),
      Frame("ApplicationData", Bytes(0, 5)),
      Frame("ApplicationData", Bytes(3, 64)),
      Frame("Handshake", HandshakePayload(ClientHello(BadDer, 0, 0))),
      Frame("Handshake", HandshakePayload(ClientHello(Der(OtherKey), 4, 0))),
      Frame("Handshake", HandshakePayload(ClientHello(Der(OtherKey), 3, 0))),
      Frame("Handshake", HandshakePayload(ClientHello(Der(OtherKey), 0, 0))),
      Frame("Handshake", HandshakePayload(ServerHello(Der(OtherKey), 0, 0))) }

RemoteWrites(p) ==
    /\ tOps < MaxTunnelOps
    /\ Len(twire[p]) < MaxTunnelInFlight
    /\ \E frame \in ForeignFrames :
        /\ twire' = [twire EXCEPT ![p] = Append(@, frame)]
    /\ tLast' = [TNone EXCEPT !.op = "remote", !.who = p]
    /\ tOps' = tOps + 1
    /\ UNCHANGED <<tun, hs, ioVars, ptlsVars, cryptoVars>>

TunnelNext ==
    \/ FullHandshakeCall
    \/ FullHandshakeReturn
    \/ ServerHandshakeCall
    \/ ServerHandshakeStep
    \/ \E p \in P : SetSignedPublicKey(p)
    \/ \E p \in P : SetPeerPublicKey(p)
    \/ \E p \in P : SendInternal(p)
    \/ \E p \in P : ReceiveInternal(p)
    \/ \E p \in P : RemoteWrites(p)

(* ---- one full handshake and nothing else ---- *)
\* The client's only call of full_handshake.
ClientRuns == hs["client"].calls = 0 /\ FullHandshakeCall

\* The server's only call of server_handshake.
ServerRuns == hs["server"].calls = 0 /\ ServerHandshakeCall

HandshakeNext ==
    \/ ClientRuns
    \/ FullHandshakeReturn
    \/ ServerRuns
    \/ ServerHandshakeStep

(***************************************************************************)
(* Claims about the Tunnel handshake.                                      *)
(***************************************************************************)
BothReturnedOk == hs["client"].res.st = "Ok" /\ hs["server"].res.st = "Ok"

BoundTo(f, key) == f.some /\ f.v.key = key

\* C1: after a full handshake in which full_handshake and server_handshake
\* have both returned Ok, each side has peer_encrypt and peer_verifying set,
\* bound to the other side's public key, and each side's state is
\* Application.
C1_HandshakeCompletion ==
    BothReturnedOk =>
        \A p \in P :
            /\ BoundTo(tun[p].peer_encrypt, LocalPublic(tun[Peer(p)]))
            /\ BoundTo(tun[p].peer_verifying, LocalPublic(tun[Peer(p)]))
            /\ tun[p].state = "Application"

\* C2: when the client runs full_handshake and a server with a signed
\* public key runs server_handshake over a reliable in-order carrier with
\* no other traffic, both calls eventually return Ok.
C2_BothEventuallyReturnOk == <>BothReturnedOk

\* C6: when server_handshake or full_handshake has failed with an error,
\* the Tunnel's state is Terminated, and a later send_internal or
\* receive_internal on that Tunnel fails without touching the carrier.
C6_FatalFailureTerminates ==
    /\ \A p \in P : hs[p].res.st = "Err" => tun[p].state = "Terminated"
    /\ (tLast.op \in {"send_internal", "receive_internal"} /\ tLast.failed)
        => (tLast.res.st = "Err" /\ ~tLast.touched)

\* The errors that say "this message may not come now".
InappropriateMessageFamily ==
    {"Handshake.InappropriateMessage", "Handshake.InvalidContentType"}

\* C9: when the record server_handshake received was an ApplicationData
\* record, server_handshake has failed with an error of the
\* InappropriateMessage family and the server's state is Terminated.
C9_ApplicationDataDuringHandshake ==
    (hs["server"].pc = "done" /\ hs["server"].got = "ApplicationData")
        => /\ hs["server"].res.st = "Err"
           /\ hs["server"].res.err \in InappropriateMessageFamily
           /\ tun["server"].state = "Terminated"

\* C10: a step of full_handshake or server_handshake on a Tunnel whose peer
\* key is installed leaves peer_encrypt and peer_verifying bound to the
\* key they were bound to.
C10_PeerKeyAppendOnly ==
    [][\A p \in P :
        (tLast'.op \in {"full_handshake", "server_handshake"} /\ tLast'.who = p)
            => /\ tun[p].peer_encrypt.some
                  => BoundTo(tun'[p].peer_encrypt, tun[p].peer_encrypt.v.key)
               /\ tun[p].peer_verifying.some
                  => BoundTo(tun'[p].peer_verifying, tun[p].peer_verifying.v.key)]_vars

\* The step is the return of the client's full_handshake with Ok: the
\* ServerHello was received, decrypted and parsed, and the server's key
\* installed.
FullHandshakeReturnsOk ==
    /\ hs["client"].pc = "await"
    /\ hs'["client"].pc = "done"
    /\ hs'["client"].res.st = "Ok"

\* A Finished record encrypted under the key the Tunnel t holds for its
\* peer.
IsFinishedFor(t, frame) ==
    /\ frame.ct = "Handshake"
    /\ frame.payload.k = "cipher"
    /\ t.peer_encrypt.some
    /\ frame.payload.key = t.peer_encrypt.v.key.id
    /\ HandshakeContentTypeTryFrom(frame.payload.plain.first) = "Finished"

(***************************************************************************)
(* C27 - client step 4 of the full handshake: between receiving a valid    *)
(* ServerHello and returning Ok, full_handshake writes exactly one record  *)
(* to the server, a Finished encrypted under the server's key.             *)
(***************************************************************************)
C27_ClientSendsFinished ==
    [][FullHandshakeReturnsOk
         => /\ Len(twire'["server"]) = Len(twire["server"]) + 1
            /\ IsFinishedFor(tun'["client"],
                             twire'["server"][Len(twire'["server"])])]_vars

(***************************************************************************)
(* SpecServer: a server Tunnel that calls server_handshake, and a remote   *)
(* end that writes handshake records of every kind to it: hellos,          *)
(* Finished records with good and bad signatures, records out of order,    *)
(* encrypted to the server or not.  hs["server"].run keeps the records     *)
(* the running call has read and what each iteration did.                  *)
(***************************************************************************)
\* Records the remote end writes in one behaviour.
MaxServerOps == 3

\* A signing function of the key pair that belongs to neither Tunnel.
OtherSigning == SigningTryNew("Sha224", OtherKey).v

\* Encrypt::encrypt under the server's public key, with the padding hash
\* of its local_decrypt; `first` is the first byte of the ciphertext.
ForServer(payload, first) ==
    Encrypt(EncryptTryNew(tun["server"].local_decrypt.hf,
                          LocalPublic(tun["server"])).v, payload, first)

\* The records written to the server.  The byte server_handshake reads as
\* the handshake content type is the first byte of the payload as it is on
\* the carrier: of the ciphertext, for an encrypted record.
ClientRecords ==
    LET c == tun["client"]
        own == Der(LocalPublic(c))
        sig_hf == HashId(c.local_signing.hf)
        pad_hf == HashId(c.local_decrypt.hf)
        \* the nonce of the records, and another one
        nonce == 1
        other_nonce == 2
        good == Sign(c.local_signing, nonce)
        ch == ClientHello(own, sig_hf, pad_hf)
        chx == ClientHello(Der(OtherKey), 0, 0)
        ech(hf, sig) == EncryptedClientHello(own, hf, pad_hf, nonce, sig)
        fin(sig) == Finished(nonce, sig, c.local_signing.key.size)
        sh == ServerHello(own, sig_hf, pad_hf)
        plain(m) == Frame("Handshake", HandshakePayload(m))
        hand(m, first) ==
            Frame("Handshake", ForServer(HandshakePayload(m), first))
    IN  { plain(ch), plain(chx), plain(fin(good)),
          plain(ClientHello(BadDer, sig_hf, pad_hf)),
          hand(ech(4, good), 1),
          hand(ech(sig_hf, good), 1),
          hand(ech(sig_hf, good), 3),
          hand(ech(sig_hf, ForgedSignature), 1),
          hand(ech(1, good), 1),
          hand(fin(good), 3),
          hand(fin(good), 1),
          hand(fin(Sign(c.local_signing, other_nonce)), 3),
          hand(fin(Sign(OtherSigning, nonce)), 3),
          hand(sh, 3),
          hand(sh, 2),
          hand(ch, 3),
          hand(ch, 0),
          Frame("ApplicationData",
                ForServer(HandshakePayload(fin(good)), 3)) }

\* The remote end writes a record to the server.
ClientWrites ==
    /\ tOps < MaxServerOps
    /\ Len(twire["server"]) < MaxTunnelInFlight
    /\ \E frame \in ClientRecords :
         twire' = [twire EXCEPT !["server"] = Append(@, frame)]
    /\ tLast' = [TNone EXCEPT !.op = "remote", !.who = "server"]
    /\ tOps' = tOps + 1
    /\ UNCHANGED <<tun, hs, ioVars, ptlsVars, cryptoVars>>

ServerNext ==
    \/ ServerHandshakeCall
    \/ ServerHandshakeStep
    \/ ClientWrites

\* The records the running (or last) call of server_handshake has read.
Run == hs["server"].run

\* The call of server_handshake has returned Ok.
ServerReturnedOk ==
    hs["server"].pc = "done" /\ hs["server"].res.st = "Ok"

\* The payload of a record before it was encrypted.
Inner(frame) ==
    IF frame.payload.k = "cipher" THEN frame.payload.plain ELSE frame.payload

\* The type of the handshake message a record carries.
InnerType(frame) == Inner(frame).body.type

\* The handshake content type server_handshake reads: payload[0].
TagRead(frame) == HandshakeContentTypeTryFrom(frame.payload.first)

\* The iteration on the i-th record of the run did not fail.
Accepted(i) == Run[i].st \in {"Loop", "Ok"}

\* msg carries a random and a signature of it that verifies under the
\* public key and the signature hash the hello `adv` advertises.
VerifiesUnder(adv, msg) ==
    LET public_key == FromPublicKeyDer(adv.public_key)
        signature_hf == HashFunctionTryFrom(adv.signature_hf)
        ver == VerifyingTryNew(signature_hf, public_key.v)
    IN  /\ public_key.st = "Ok"
        /\ signature_hf # "Err"
        /\ ver.st = "Ok"
        /\ Verify(ver.v, msg.random, msg.random_signature).st = "Ok"

(***************************************************************************)
(* C28 - server_handshake returns Ok only after it has verified a nonce    *)
(* signature: the last record of a run that returned Ok is a Finished or   *)
(* an EncryptedClientHello whose random_signature is a signature of its    *)
(* random that verifies under the public key and the signature hash        *)
(* advertised by a ClientHello / EncryptedClientHello accepted in the      *)
(* same run.                                                               *)
(***************************************************************************)
C28_OkOnlyAfterVerify ==
    ServerReturnedOk =>
        /\ Run # <<>>
        /\ InnerType(Run[Len(Run)].frame) \in {"Finished", "EncryptedClientHello"}
        /\ \E i \in 1 .. Len(Run) :
             /\ Accepted(i)
             /\ InnerType(Run[i].frame) \in {"ClientHello", "EncryptedClientHello"}
             /\ VerifiesUnder(Inner(Run[i].frame).body,
                              Inner(Run[Len(Run)].frame).body)

\* A full handshake on the server: a ClientHello, then a Finished, and Ok.
C28_Witness ==
    /\ ServerReturnedOk
    /\ Len(Run) = 2
    /\ InnerType(Run[1].frame) = "ClientHello"
    /\ InnerType(Run[2].frame) = "Finished"

\* A ClientHello was accepted in the run before its i-th record.
HelloAcceptedBefore(i) ==
    \E j \in 1 .. i - 1 : Accepted(j) /\ TagRead(Run[j].frame) = "ClientHello"

\* The inner types server_handshake accepts as the i-th record of a run.
AllowedAt(i) ==
    IF HelloAcceptedBefore(i) THEN {"Finished"}
    ELSE {"ClientHello", "EncryptedClientHello"}

(***************************************************************************)
(* C29 - server message discipline: a record whose inner type is not       *)
(* ClientHello or EncryptedClientHello before a ClientHello was accepted,  *)
(* or not Finished after one was, is not accepted and not skipped: the     *)
(* iteration that reads it fails and server_handshake returns the error.   *)
(* The inner type is taken both as the call reads it (the first byte of    *)
(* the payload) and as the type of the message the record carries.         *)
(***************************************************************************)
C29_ServerMessageDiscipline ==
    \A i \in 1 .. Len(Run) :
        (\/ TagRead(Run[i].frame) \notin AllowedAt(i)
         \/ InnerType(Run[i].frame) \notin AllowedAt(i))
        => /\ Run[i].st \in {"Err", "Panic"}
           /\ i = Len(Run)
           /\ hs["server"].pc = "done"
           /\ hs["server"].res.st = Run[i].st

\* A second ClientHello, read after a ClientHello was accepted, ended the
\* call with an error.
C29_Witness ==
    /\ Len(Run) = 2
    /\ Accepted(1)
    /\ TagRead(Run[1].frame) = "ClientHello"
    /\ TagRead(Run[2].frame) = "ClientHello"
    /\ InnerType(Run[2].frame) = "ClientHello"
    /\ hs["server"].pc = "done"
    /\ hs["server"].res = [st |-> "Err", err |-> "Handshake.InvalidContentType"]

\* The step is an iteration of server_handshake that reads, before any
\* hello was accepted, a record it takes for an EncryptedClientHello, and
\* does not fail.
AcceptsEncryptedClientHello ==
    /\ hs["server"].pc = "await"
    /\ ~hs["server"].client_hello
    /\ twire["server"] # <<>>
    /\ TagRead(Head(twire["server"])) = "EncryptedClientHello"
    /\ Len(hs'["server"].run) = Len(Run) + 1
    /\ hs'["server"].run[Len(Run) + 1].st \in {"Loop", "Ok"}

(***************************************************************************)
(* C30 - abbreviated handshake on the server: the iteration that accepts   *)
(* an EncryptedClientHello as the first record installs the key the        *)
(* record advertises (peer_encrypt with its padding hash, peer_verifying   *)
(* with its signature hash), has verified the signature of the nonce       *)
(* under it, returns Ok and writes no record to the carrier.               *)
(***************************************************************************)
C30_AbbreviatedHandshake ==
    [][AcceptsEncryptedClientHello =>
         LET ech == Inner(Head(twire["server"])).body
             t == tun'["server"]
         IN  /\ hs'["server"].pc = "done"
             /\ hs'["server"].res.st = "Ok"
             /\ twire'["client"] = twire["client"]
             /\ InnerType(Head(twire["server"])) = "EncryptedClientHello"
             /\ t.peer_encrypt.some
             /\ t.peer_encrypt.v.key = FromPublicKeyDer(ech.public_key).v
             /\ t.peer_encrypt.v.hf = HashFunctionTryFrom(ech.padding_hf)
             /\ t.peer_verifying.some
             /\ t.peer_verifying.v.key = FromPublicKeyDer(ech.public_key).v
             /\ t.peer_verifying.v.hf = HashFunctionTryFrom(ech.signature_hf)
             /\ VerifiesUnder(ech, ech)]_vars

\* The first call of server_handshake returned Ok on an
\* EncryptedClientHello as its only record, with nothing written.
C30_Witness ==
    /\ ServerReturnedOk
    /\ hs["server"].calls = 1
    /\ Len(Run) = 1
    /\ InnerType(Run[1].frame) = "EncryptedClientHello"
    /\ tun["server"].peer_encrypt.some
    /\ twire["client"] = <<>>

\* No call of server_handshake has returned Ok so far: the first call has
\* not been made, is running, or has failed.
NoHandshakeCompleted ==
    hs["server"].calls <= 1 /\ ~ServerReturnedOk

(***************************************************************************)
(* C31 - the peer key stays absent until a handshake completes: on a       *)
(* server whose peer key was never hard-coded, as long as no call of       *)
(* server_handshake has returned Ok (also when the call has returned an    *)
(* error), peer_encrypt and peer_verifying are both absent.                *)
(***************************************************************************)
C31_PeerKeyAbsentUntilOk ==
    NoHandshakeCompleted =>
        /\ ~tun["server"].peer_encrypt.some
        /\ ~tun["server"].peer_verifying.some

\* A Finished or EncryptedClientHello record built the way the Tunnel
\* builds its encrypted handshake records: the tag byte followed by the
\* serialized message, the whole encrypted for the server.
BuiltForServer(frame) ==
    /\ frame.ct = "Handshake"
    /\ frame.payload.k = "cipher"
    /\ frame.payload.key = LocalPublic(tun["server"]).id
    /\ frame.payload.hf = tun["server"].local_decrypt.hf
    /\ InnerType(frame) \in {"Finished", "EncryptedClientHello"}
    /\ HandshakeContentTypeAsU8(InnerType(frame)) = Inner(frame).first

\* The record with the tag the sender wrote where the receiver looks for
\* it.
TagAsWritten(frame) ==
    [frame EXCEPT !.payload.first = Inner(frame).first]

(***************************************************************************)
(* C33 - sender and receiver agree on where the inner handshake tag is:    *)
(* an iteration of server_handshake that reads an encrypted Finished or    *)
(* EncryptedClientHello record dispatches on the tag the sender wrote, so  *)
(* that its outcome is the one of the arm of that tag.                     *)
(***************************************************************************)
C33_DispatchOnWrittenTag ==
    [][(/\ hs["server"].pc = "await"
        /\ twire["server"] # <<>>
        /\ Len(hs'["server"].run) = Len(Run) + 1
        /\ BuiltForServer(Head(twire["server"])))
       => hs'["server"].run[Len(Run) + 1].st =
            ServerIteration(tun["server"], hs["server"].client_hello,
                            TagAsWritten(Head(twire["server"])), 0).res.st]_vars

\* The step is an iteration of server_handshake, on a server with no
\* signed public key and before any hello was accepted, that reads a
\* ClientHello or an EncryptedClientHello.
HelloWithoutSignedKey ==
    /\ hs["server"].pc = "await"
    /\ ~hs["server"].client_hello
    /\ twire["server"] # <<>>
    /\ Len(hs'["server"].run) = Len(Run) + 1
    /\ ~tun["server"].signed_public.some
    /\ LET frame == Head(twire["server"])
       IN  /\ frame.ct = "Handshake"
           /\ \/ /\ TagRead(frame) = "ClientHello"
                 /\ frame.payload.k = "plain"
                 /\ InnerType(frame) = "ClientHello"
              \/ /\ TagRead(frame) = "EncryptedClientHello"
                 /\ frame.payload.k = "cipher"
                 /\ frame.payload.key = LocalPublic(tun["server"]).id
                 /\ frame.payload.hf = tun["server"].local_decrypt.hf
                 /\ InnerType(frame) = "EncryptedClientHello"

\* The hello advertises a public key and two hashes that parse.
CredentialsParse(hello) ==
    /\ FromPublicKeyDer(hello.public_key).st = "Ok"
    /\ HashFunctionTryFrom(hello.signature_hf) # "Err"
    /\ HashFunctionTryFrom(hello.padding_hf) # "Err"

\* The step fails, leaves the Tunnel as it was and writes nothing.
FailsUntouched ==
    /\ hs'["server"].pc = "done"
    /\ hs'["server"].res.st = "Err"
    /\ tun' = tun
    /\ twire'["client"] = twire["client"]

NegotiateKeySize == 256

NegotiateConfigs ==
    { [size |-> NegotiateKeySize, padding_hf |-> p_hf, signature_hf |-> s_hf] :
        p_hf \in HashFunction, s_hf \in HashFunction }

(***************************************************************************)
(* C32 - hash negotiation agreement: once server_handshake or              *)
(* full_handshake has installed the peer on a Tunnel, its peer_encrypt     *)
(* uses the hash of the other side's local_decrypt and its peer_verifying  *)
(* the hash of the other side's local_signing, and both are bound to the   *)
(* other side's public key.                                                *)
(***************************************************************************)
C32_HashAgreement ==
    \A p \in P :
        /\ tun[p].peer_encrypt.some
            => /\ tun[p].peer_encrypt.v.hf = tun[Peer(p)].local_decrypt.hf
               /\ tun[p].peer_encrypt.v.key = LocalPublic(tun[Peer(p)])
        /\ tun[p].peer_verifying.some
            => /\ tun[p].peer_verifying.v.hf = tun[Peer(p)].local_signing.hf
               /\ tun[p].peer_verifying.v.key = LocalPublic(tun[Peer(p)])

\* Both sides have installed the peer, the four hashes all different.
C32_Witness ==
    /\ \A p \in P : tun[p].peer_encrypt.some /\ tun[p].peer_verifying.some
    /\ tun["client"].local_decrypt.hf = "Sha512"
    /\ tun["client"].local_signing.hf = "Sha384"
    /\ tun["server"].local_decrypt.hf = "Sha224"
    /\ tun["server"].local_signing.hf = "Sha256"
    /\ hs["client"].res.st = "Ok"

(***************************************************************************)
(* SpecAlert: one full handshake, and Alert records that reach a Tunnel    *)
(* whose handshake call has returned Ok; the Tunnel reads them with        *)
(* receive_internal or in its listen loop (tunnel/listen.rs).              *)
(***************************************************************************)
\* Alert records and reads of them in one behaviour.
MaxAlertOps == 3

\* The flags byte of an Alert: bit 0 is_encrypted, bit 1 is_fatal.
IsEncrypted(flags) == flags % 2 = 1

\* Unencrypted Alert records: the flags byte and what follows it.
PlainAlerts ==
    { Frame("Alert", Bytes(flags, n)) : flags \in {0, 2}, n \in {2, 64, 128} }

\* A frame is an Alert record whose payload is sent as it is, with the
\* is_encrypted flag 0.
IsPlainAlert(frame) ==
    /\ frame.ct = "Alert"
    /\ frame.payload.k = "plain"
    /\ ~IsEncrypted(frame.payload.first)

\* One iteration of the loop of Tunnel::listen on the frame receive
\* returned: the result ("Loop" when the loop goes on) and whether a value
\* was handed to application_handler.  Every arm but ApplicationData is
\* todo!(), and ApplicationData unwraps the deserialization of the payload.
ListenIteration(frame) ==
    IF frame.ct = "ApplicationData"
        THEN IF frame.payload.k = "plain" /\ frame.payload.body.type = "bytes"
                THEN [res |-> Loop, delivered |-> TRUE]
                ELSE [res |-> Panic, delivered |-> FALSE]
        ELSE [res |-> Panic, delivered |-> FALSE]

\* The handshake call of p has returned Ok.
HandshakeDone(p) == hs[p].pc = "done" /\ hs[p].res.st = "Ok"

CanAlert(p) == HandshakeDone(p) /\ tOps < MaxAlertOps

\* The remote end writes an unencrypted Alert record to p.
AlertArrives(p) ==
    /\ CanAlert(p)
    /\ Len(twire[p]) < MaxTunnelInFlight
    /\ \E frame \in PlainAlerts :
         twire' = [twire EXCEPT ![p] = Append(@, frame)]
    /\ tLast' = [TNone EXCEPT !.op = "remote", !.who = p]
    /\ tOps' = tOps + 1
    /\ UNCHANGED <<tun, hs, ioVars, ptlsVars, cryptoVars>>

\* p reads the next record with receive_internal.
AlertReceiveInternal(p) ==
    /\ CanAlert(p)
    /\ twire[p] # <<>>
    /\ LET r == ReceiveInternalOutcome(tun[p], Head(twire[p]))
           w == [twire EXCEPT ![p] = Tail(@)]
       IN  /\ twire' = w
           /\ tLast' = Note("receive_internal", p, r, w)
    /\ tOps' = tOps + 1
    /\ UNCHANGED <<tun, hs, ioVars, ptlsVars, cryptoVars>>

\* p reads the next record in the loop of listen.
AlertListen(p) ==
    /\ CanAlert(p)
    /\ twire[p] # <<>>
    /\ LET r == ListenIteration(Head(twire[p]))
           w == [twire EXCEPT ![p] = Tail(@)]
       IN  /\ twire' = w
           /\ tLast' = Note("listen", p, r.res, w)
    /\ tOps' = tOps + 1
    /\ UNCHANGED <<tun, hs, ioVars, ptlsVars, cryptoVars>>

AlertNext ==
    \/ ClientRuns
    \/ FullHandshakeReturn
    \/ ServerRuns
    \/ ServerHandshakeStep
    \/ \E p \in P : AlertArrives(p)
    \/ \E p \in P : AlertReceiveInternal(p)
    \/ \E p \in P : AlertListen(p)

(***************************************************************************)
(* C26 - after handshake completion an Alert record whose is_encrypted     *)
(* flag is 0 is silently ignored: the read of it raises no error and no    *)
(* panic, hands nothing to the application, leaves the Tunnel (its state   *)
(* and its peer keys) as it was, and takes the record off the carrier, so  *)
(* that the next read processes the next record.                           *)
(***************************************************************************)
C26_PlainAlertIgnored ==
    [][\A p \in P :
         (/\ HandshakeDone(p)
          /\ tLast'.op \in {"receive_internal", "listen"}
          /\ tLast'.who = p
          /\ tOps' = tOps + 1
          /\ IsPlainAlert(Head(twire[p])))
         => /\ tLast'.res.st \notin {"Err", "Panic", "Ok"}
            /\ tun'[p] = tun[p]
            /\ twire'[p] = Tail(twire[p])]_vars

(***************************************************************************)
(* SpecAuth: two Tunnels that install each other's public key with         *)
(* set_peer_public_key and then exchange records with send_internal and    *)
(* receive_internal (tunnel_pair!(auth), test encrypted_tunnel).           *)
(***************************************************************************)
\* Records that may wait on one carrier.
MaxAuthInFlight == 1

\* Key sizes and hashes of the two Tunnels: the ones of tunnel_pair!, and
\* ones where local_decrypt and local_signing use different hashes.
AuthConfigs ==
    { [size |-> 64, padding_hf |-> "Sha224", signature_hf |-> "Sha224"],
      [size |-> 128, padding_hf |-> "Sha256", signature_hf |-> "Sha256"],
      [size |-> 128, padding_hf |-> "Sha256", signature_hf |-> "Sha384"],
      [size |-> 128, padding_hf |-> "Sha384", signature_hf |-> "Sha224"] }

\* The payloads given to send_internal: the five bytes of the test, and
\* one that takes several blocks.
AuthPayloads == { Bytes(1, 5), Bytes(7, 200) }

\* p installs the public key of its peer, with the padding hash of the
\* peer's local_decrypt and the signature hash of its local_signing.
AuthInstall(p) ==
    LET q == Peer(p)
        r == SetPeerPublicKeyOutcome(tun[p], LocalPublic(tun[q]),
                                     tun[q].local_decrypt.hf,
                                     tun[q].local_signing.hf)
    IN  /\ ~tun[p].peer_encrypt.some
        /\ tun' = [tun EXCEPT ![p] = r.t]
        /\ tLast' = Note("set_peer_public_key", p, r.res, twire)
        /\ UNCHANGED <<twire, hs, tOps, ioVars, ptlsVars, cryptoVars>>

\* send_internal, once both sides have installed their peer's key.
AuthSend(p) ==
    /\ \A q \in P : tun[q].peer_encrypt.some /\ tun[q].peer_verifying.some
    /\ Len(twire[Peer(p)]) < MaxAuthInFlight
    /\ \E content_type \in ContentType, payload \in AuthPayloads,
          first \in FirstBytes :
        LET r == SendInternalOutcome(tun[p], content_type, payload, first)
            w == [twire EXCEPT ![Peer(p)] = @ \o r.out]
        IN  /\ twire' = w
            /\ tLast' = Note("send_internal", p, r.res, w)
    /\ UNCHANGED <<tun, hs, tOps, ioVars, ptlsVars, cryptoVars>>

\* receive_internal, when a record has arrived.
AuthReceive(p) ==
    /\ twire[p] # <<>>
    /\ LET r == ReceiveInternalOutcome(tun[p], Head(twire[p]))
           w == [twire EXCEPT ![p] = Tail(@)]
       IN  /\ twire' = w
           /\ tLast' = Note("receive_internal", p,
                            IF r.st = "Ok" THEN Ok(TRUE) ELSE r, w)
    /\ UNCHANGED <<tun, hs, tOps, ioVars, ptlsVars, cryptoVars>>

AuthNext ==
    \/ \E p \in P : AuthInstall(p)
    \/ \E p \in P : AuthSend(p)
    \/ \E p \in P : AuthReceive(p)

(***************************************************************************)
(* C20 - encrypted tunnel round-trip: when both sides have installed the   *)
(* other side's public key with set_peer_public_key, giving it the padding *)
(* hash of the other side's local_decrypt and the signature hash of its    *)
(* local_signing, send_internal(ct, p) succeeds and the receive_internal   *)
(* that reads its record on the other side returns (ct, p), whatever the   *)
(* hashes of the two sides are.                                            *)
(***************************************************************************)
C20_TunnelRoundTrip ==
    [][\A p \in P :
         /\ (tLast'.op = "send_internal" /\ tLast'.who = p /\ tLast' # tLast)
              => tLast'.res.st = "Ok"
         /\ (tLast'.op = "receive_internal" /\ tLast'.who = p
               /\ twire'[p] # twire[p])
              => /\ tLast'.res.st = "Ok"
                 /\ ReceiveInternalOutcome(tun[p], Head(twire[p]))
                      = Ok(Frame(Head(twire[p]).ct,
                                 Head(twire[p]).payload.plain))]_vars

(***************************************************************************)
(* payload/mod.rs: the record of the Ptls tunnel.                          *)
(* A record on a carrier is kept whole: its header fields, the key its     *)
(* blocks were encrypted to, their number, and `data`, the plaintexts of   *)
(* the blocks one after another.                                           *)
(***************************************************************************)
\* `PtlsPayloadType::X as u8`
PtlsPayloadTypeAsU8(t) ==
    CASE t = "PublicKey" -> 0
      [] t = "EncryptedTraffic" -> 1

\* PtlsPayloadType::try_from(u8)
PtlsPayloadTypeTryFrom(b) ==
    CASE b = 0 -> "PublicKey"
      [] b = 1 -> "EncryptedTraffic"
      [] OTHER -> "Err"

\* The overhead of PKCS#1 v1.5 encryption in one block.
Pkcs1v15Overhead == 11

max_payload_size(block_size) ==
    LET block_count == U16Max \div block_size
    IN  AsU16(AsU16(block_size - Pkcs1v15Overhead) * block_count - 5)

\* PtlsPayload::new
PtlsPayloadNew(payload, content_type) ==
    [content_type |-> content_type, version |-> 0,
     length |-> AsU16(BLen(payload)), payload |-> payload]

\* The plaintext of block i of PtlsPayload::write, taken from the start of
\* the payload: the block a faulty slice would give.
ChunkFromStart(payload, length, block_size, i) ==
    BTake(payload, Min((i + 1) * block_size, length) - i * block_size)

\* The plaintext of block i of PtlsPayload::write:
\* payload[(i * block_size)..((i + 1) * block_size).min(length)]
Chunk(payload, length, block_size, i) ==
    BTake(BDrop(payload, i * block_size),
          Min((i + 1) * block_size, length) - i * block_size)

\* The plaintexts of the blocks lo .. hi - 1, in the order they are written.
RECURSIVE Blocks(_, _, _, _, _)
Blocks(payload, length, block_size, lo, hi) ==
    IF hi <= lo THEN <<>>
    ELSE IF hi = lo + 1 THEN Chunk(payload, length, block_size, lo)
    ELSE LET mid == (lo + hi) \div 2
         IN  BCat(Blocks(payload, length, block_size, lo, mid),
                  Blocks(payload, length, block_size, mid, hi))

\* PtlsPayload::write on a carrier that is closed or not: the result and
\* the records written.  `sent` remembers the payload write was given.
PtlsPayloadWrite(self, public_key, closed) ==
    IF self.length > max_payload_size(public_key.size)
        THEN [res |-> Err("PayloadTooLong"), out |-> <<>>]
    ELSE IF closed THEN [res |-> Err("Io"), out |-> <<>>]
    ELSE LET block_size == public_key.size - Pkcs1v15Overhead
             block_count == CeilDiv(self.length, block_size)
         IN  [res |-> Ok(TRUE),
              out |-> << [content_type |-> PtlsPayloadTypeAsU8(self.content_type),
                          version |-> self.version,
                          length |-> self.length,
                          key |-> public_key,
                          blocks |-> block_count,
                          data |-> Blocks(self.payload, self.length,
                                          block_size, 0, block_count),
                          sent |-> self.payload,
                          origin |-> "peer"] >>]

\* The bytes a sequence of records takes on the carrier.
RECURSIVE WireBytes(_)
WireBytes(recs) ==
    IF recs = <<>> THEN 0
    ELSE 5 + Head(recs).blocks * Head(recs).key.size + WireBytes(Tail(recs))

Pending == [st |-> "Pending", err |-> ""]

\* The carrier w = [recs, desync, closed, part].  `part` tells that the
\* writer of the last record of recs is suspended in the middle of
\* PtlsPayload::write: the header of the record has reached the carrier,
\* its blocks have not.
HeadInPart(w) == w.part /\ Len(w.recs) = 1

\* PtlsPayload::collect_once on the carrier w, whose next byte starts a
\* record: the result and the carrier afterwards.  A block decrypts when it
\* was encrypted to private_key; the first block that was not is an RSA
\* error, and what follows it stays on the carrier (desync).  With the
\* result Pending the call is suspended in a read, and the carrier given is
\* the one it leaves behind when it is dropped there: the bytes it has read
\* are gone.
CollectOnce(w, private_key) ==
    IF w.recs = <<>>
        THEN [res |-> IF w.closed THEN Err("Io") ELSE Pending, w |-> w]
    ELSE
      LET r == Head(w.recs)
          rest == Tail(w.recs)
          block_size == private_key.size
          block_count == CeilDiv(r.length, block_size - Pkcs1v15Overhead)
          content_type == PtlsPayloadTypeTryFrom(r.content_type)
          avail == r.blocks * r.key.size + WireBytes(rest)
      IN  IF r.length > max_payload_size(block_size)
              THEN [res |-> Err("PayloadTooLong"),
                    w |-> [w EXCEPT !.recs = rest, !.desync = r.blocks > 0,
                                    !.part = @ /\ rest # <<>>]]
          ELSE IF block_count > 0 /\ HeadInPart(w)
              THEN [res |-> Pending,
                    w |-> [w EXCEPT !.recs = <<>>, !.desync = TRUE,
                                    !.part = FALSE]]
          ELSE IF block_count = 0 \/ r.key = private_key
              THEN [res |-> IF content_type = "Err"
                               THEN Err("InvalidContentType")
                               ELSE Ok(PtlsPayloadNew(r.data, content_type)),
                    w |-> [w EXCEPT !.recs = rest]]
          ELSE IF avail < block_size /\ ~w.closed
              THEN [res |-> Pending, w |-> [w EXCEPT !.recs = <<>>]]
          ELSE [res |-> Err("Rsa"),
                w |-> [w EXCEPT !.recs = rest,
                                !.desync = r.blocks * r.key.size # block_size]]

\* What collect_once can return when the next byte of the carrier is in the
\* middle of a record: the header it reads is ciphertext.
DesyncOutcomes ==
    { Err("Rsa"), Err("PayloadTooLong"), Err("InvalidContentType"),
      Ok(PtlsPayloadNew(<<>>, "EncryptedTraffic")),
      Ok(PtlsPayloadNew(<<>>, "PublicKey")) }

Collected(w, private_key) ==
    IF w.desync THEN {[res |-> o, w |-> w] : o \in DesyncOutcomes}
    ELSE {CollectOnce(w, private_key)}

(* ---- PKCS#1 DER of a public key ---- *)
Pkcs1DerLen(size) ==
    CASE size = 64 -> 74
      [] size = 128 -> 140
      [] OTHER -> size + 14

KeyCode(id) ==
    CASE id = "kc" -> 1
      [] id = "ks" -> 2
      [] OTHER -> 3

\* to_pkcs1_der: a SEQUENCE tag (0x30) and bytes that tell the key.
ToPkcs1Der(key) ==
    BCat(BByte(48), BRep(KeyCode(key.id), Pkcs1DerLen(key.size) - 1))

KnownKeys == {Key(id, size) : id \in {"kc", "ks", "kx"}, size \in {64, 128}}

\* RsaPublicKey::from_pkcs1_der
FromPkcs1Der(bytes) ==
    IF \E k \in KnownKeys : ToPkcs1Der(k) = bytes
        THEN Ok(CHOOSE k \in KnownKeys : ToPkcs1Der(k) = bytes)
        ELSE Err("Pkcs1")

(***************************************************************************)
(* lib.rs: Ptls                                                            *)
(***************************************************************************)
PtlsState == {"AwaitingPublicKey", "Authenticated", "TransmitError"}

\* Ptls::new.  `via` remembers what installed public_key, and `expired`
\* whether a handshake of this object has timed out: "no", "yes", or
\* "revived" when set_public_key was called after it did.
PtlsNew(private_key) ==
    [private_key |-> private_key,
     public_key |-> None,
     state |-> "AwaitingPublicKey",
     timeout |-> None,
     via |-> "none",
     expired |-> "no"]

\* Ptls::set_state
set_state(self, state) == [self EXCEPT !.state = state]

\* Ptls::set_public_key
set_public_key(self, public_key) ==
    set_state([self EXCEPT !.public_key = Some(public_key)], "Authenticated")

\* Ptls::set_timeout
set_timeout(self, timeout) == [self EXCEPT !.timeout = timeout]

\* A result of a Ptls method: the object, the carrier it read or the
\* records it wrote, what it returned, and what the write or the
\* collect_once inside it returned (NoInner when it ran none).
PRet(self, io, res, inner) ==
    [self |-> self, io |-> io, res |-> res, inner |-> inner]

NoInner == [st |-> "None", err |-> ""]

\* send_inner outside Authenticated, when it returns the state that was
\* there after a failure and the other before a key.
NotAuthenticatedSwapped(state) ==
    IF state = "AwaitingPublicKey" THEN Err("SocketDied") ELSE Err("NotReady")

\* send_inner outside Authenticated.
NotAuthenticated(state) ==
    IF state = "AwaitingPublicKey" THEN Err("NotReady") ELSE Err("SocketDied")

\* `match sent` of send_inner, when it forgets set_state.
SentResultKeepsState(self, sent) == self

\* `match sent` of send_inner: the object afterwards.
SentResult(self, sent) ==
    IF sent.st = "Err" THEN set_state(self, "TransmitError") ELSE self

\* Ptls::send_inner; `closed` tells whether the write half is closed.
send_inner(self, data, content_type, closed) ==
    IF self.state = "Authenticated"
        THEN LET sent == PtlsPayloadWrite(PtlsPayloadNew(data, content_type),
                                          self.public_key.v, closed)
             IN  PRet(SentResult(self, sent.res), sent.out, sent.res, sent.res)
        ELSE PRet(self, <<>>, NotAuthenticated(self.state), NoInner)

\* Ptls::send
send(self, data, closed) == send_inner(self, data, "EncryptedTraffic", closed)

\* Ptls::send_public_key: to_pkcs1_der of the own public key succeeds; the
\* result of send_inner is unwrapped.
send_public_key(self, closed) ==
    LET r == send_inner(self, ToPkcs1Der(self.private_key), "PublicKey", closed)
    IN  IF r.res.st = "Ok" THEN r ELSE PRet(r.self, r.io, Panic, r.inner)

\* `match received` of receive_inner: the object afterwards.
ReceivedResult(self, received) ==
    IF received.st = "Err" THEN set_state(self, "TransmitError") ELSE self

\* Ptls::receive_inner, given what collect_once does (c = [res, w]) on the
\* carrier w.
receive_inner(self, w, c) ==
    IF self.state = "TransmitError"
        THEN PRet(self, w, Err("SocketDied"), NoInner)
        ELSE PRet(ReceivedResult(self, c.res), c.w, c.res, c.res)

\* Ptls::receive
receive(self, w, c) ==
    LET received == receive_inner(self, w, c)
    IN  IF received.res.st # "Ok" THEN received
        ELSE IF received.res.v.content_type = "EncryptedTraffic"
            THEN PRet(received.self, received.io, Ok(received.res.v.payload),
                      received.inner)
        ELSE PRet(set_state(received.self, "TransmitError"), received.io,
                  Err("InvalidContentType"), received.inner)

\* The timer arm of the select! of handshake, when it forgets set_state.
TimerArmKeepsState(self) == [self EXCEPT !.expired = "yes"]

\* The timer arm of the select! of handshake: the object afterwards.
TimerArm(self) ==
    [set_state(self, "TransmitError") EXCEPT !.expired = "yes"]

\* Ptls::handshake.  When receive_inner is pending, the sleep of a
\* configured timeout completes first and receive_inner is dropped where
\* it is.
handshake(self, w, c) ==
    LET payload == receive_inner(self, w, c)
    IN  IF payload.res.st = "Pending"
            THEN PRet(TimerArm(self), payload.io, Err("Timeout"),
                      payload.inner)
        ELSE IF payload.res.st = "Err"
            THEN PRet(set_state(payload.self, "TransmitError"), payload.io,
                      payload.res, payload.inner)
        ELSE IF payload.res.v.content_type = "PublicKey"
            THEN LET cert == FromPkcs1Der(payload.res.v.payload)
                 IN  IF cert.st = "Ok"
                         THEN PRet([set_public_key(payload.self, cert.v)
                                       EXCEPT !.via = "handshake"],
                                   payload.io, Ok(TRUE), payload.inner)
                         ELSE PRet(set_state(payload.self, "TransmitError"),
                                   payload.io, cert, payload.inner)
        ELSE PRet(set_state(payload.self, "TransmitError"), payload.io,
                  Err("InvalidContentType"), payload.inner)

(***************************************************************************)
(* Two Ptls objects, a client and a server, joined by two carriers, each   *)
(* called by its application, one call at a time.                          *)
(*   SpecPtls     - any calls in any order, with carriers that close and   *)
(*                  a remote end that writes records of its own;           *)
(*   SpecExchange - the exchange of the mtls_max_buffer test: the client   *)
(*                  installs the server's key and sends its own, the       *)
(*                  server runs handshake, then the client sends data and  *)
(*                  the server receives it.                                *)
(***************************************************************************)
\* Calls and carrier events in one behaviour of SpecPtls.
MaxPtlsOps == 4

\* Calls in one behaviour of SpecExchange.
MaxExchangeOps == 5

\* Records that may wait on one carrier.
MaxPtlsInFlight == 2

\* The sizes (bytes) of the RSA keys of the two ends.
PtlsKeySizes == {64, 128}

\* A public key that belongs to neither end.
PtlsOtherKey == Key("kx", 128)

\* Data for send in SpecPtls: none, one block, several blocks, more than
\* any key here carries, and more than a u16 counts.
PtlsData ==
    { <<>>,
      BOf(<<1, 2, 3>>),
      BCat(BRep(1, 60), BRep(2, 100)),
      BRep(9, U16Max),
      BCat(BOf(<<1, 2, 3>>), BRep(9, U16Max + 1)) }

\* The largest payload a key of `size` bytes carries, with two byte values
\* in it.
MaxData(size) == BCat(BRep(7, max_payload_size(size) - 1), BByte(8))

\* Data for send in SpecExchange, to a key of `size` bytes: up to the
\* largest payload, and one byte more.
ExchangeData(size) ==
    { <<>>,
      BOf(<<1, 2, 3>>),
      BCat(BRep(1, 60), BRep(2, 100)),
      ToPkcs1Der(PtlsOtherKey),
      MaxData(size),
      BCat(MaxData(size), BByte(9)) }

NoRecord ==
    [content_type |-> 255, version |-> 0, length |-> 0, key |-> Key("none", 0),
     blocks |-> 0, data |-> <<>>, sent |-> <<>>, origin |-> "none"]

\* Records the remote end can write that no method of Ptls writes: an
\* unknown content type, and a PublicKey record that holds no key.
ForeignRecords(key) ==
    { [NoRecord EXCEPT !.content_type = 2, !.length = 3, !.key = key, !.blocks = 1,
                       !.data = BOf(<<1, 2, 3>>), !.origin = "remote"],
      [NoRecord EXCEPT !.content_type = 0, !.length = 3, !.key = key, !.blocks = 1,
                       !.data = BOf(<<1, 2, 3>>), !.origin = "remote"] }

PNone ==
    [op |-> "none", who |-> "nobody", pre |-> "AwaitingPublicKey",
     res |-> NoInner, inner |-> NoInner, wrote |-> FALSE, up |-> TRUE,
     sent |-> <<>>, got |-> <<>>, rec |-> NoRecord, insync |-> TRUE]

PtlsIdle ==
    /\ pt = <<>>
    /\ pwire = <<>>
    /\ pLast = PNone
    /\ pOps = 0

PtlsStart ==
    /\ \E sc \in PtlsKeySizes, ss \in PtlsKeySizes :
         pt = [p \in P |-> PtlsNew(Key(KeyId(p), IF p = "client" THEN sc ELSE ss))]
    /\ pwire = [p \in P |-> [recs |-> <<>>, desync |-> FALSE, closed |-> FALSE,
                              part |-> FALSE]]
    /\ pLast = PNone
    /\ pOps = 0

PResult(res) ==
    [st |-> res.st, err |-> IF res.st = "Ok" THEN "" ELSE res.err]

\* The record a read of p's carrier starts with.
NextRecord(p) ==
    IF pwire[p].recs = <<>> \/ pwire[p].desync THEN NoRecord
    ELSE Head(pwire[p].recs)

(* ---- the calls and events, as steps ---- *)
\* p's application calls set_public_key.
DoSetPublicKey(p, public_key) ==
    /\ pt' = [pt EXCEPT ![p] = [set_public_key(@, public_key)
                                   EXCEPT !.via = "set_public_key",
                                          !.expired = IF @ = "no" THEN "no"
                                                      ELSE "revived"]]
    /\ pLast' = [PNone EXCEPT !.op = "set_public_key", !.who = p,
                              !.pre = pt[p].state, !.res = PResult(Ok(TRUE))]
    /\ pOps' = pOps + 1
    /\ UNCHANGED <<pwire, ioVars, tunVars, cryptoVars>>

\* p's application calls set_timeout.
DoSetTimeout(p, timeout) ==
    /\ pt' = [pt EXCEPT ![p] = set_timeout(@, timeout)]
    /\ pLast' = [PNone EXCEPT !.op = "set_timeout", !.who = p,
                              !.pre = pt[p].state, !.res = PResult(Ok(TRUE))]
    /\ pOps' = pOps + 1
    /\ UNCHANGED <<pwire, ioVars, tunVars, cryptoVars>>

\* What a call that writes does to the state.
Wrote(p, op, r, data) ==
    /\ Len(pwire[Peer(p)].recs) + Len(r.io) <= MaxPtlsInFlight
    /\ pt' = [pt EXCEPT ![p] = r.self]
    /\ pwire' = [pwire EXCEPT ![Peer(p)].recs = @ \o r.io]
    /\ pLast' = [PNone EXCEPT !.op = op, !.who = p, !.pre = pt[p].state,
                              !.res = PResult(r.res),
                              !.inner = PResult(r.inner), !.wrote = r.io # <<>>,
                              !.up = ~pwire[Peer(p)].closed, !.sent = data]
    /\ pOps' = pOps + 1
    /\ UNCHANGED <<ioVars, tunVars, cryptoVars>>

\* p's application calls send_public_key.
DoSendPublicKey(p) ==
    Wrote(p, "send_public_key", send_public_key(pt[p], pwire[Peer(p)].closed),
          ToPkcs1Der(pt[p].private_key))

\* p's application calls send.
DoSend(p, data) ==
    Wrote(p, "send", send(pt[p], data, pwire[Peer(p)].closed), data)

\* What a call that reads does to the state.
Read(p, op, r) ==
    /\ pt' = [pt EXCEPT ![p] = r.self]
    /\ pwire' = [pwire EXCEPT ![p] = r.io]
    /\ pLast' = [PNone EXCEPT !.op = op, !.who = p, !.pre = pt[p].state,
                              !.res = PResult(r.res),
                              !.inner = PResult(r.inner),
                              !.got = IF op = "receive" /\ r.res.st = "Ok"
                                         THEN r.res.v ELSE <<>>,
                              !.rec = NextRecord(p),
                              !.insync = ~pwire[p].desync]
    /\ pOps' = pOps + 1
    /\ UNCHANGED <<ioVars, tunVars, cryptoVars>>

\* p's application calls receive; the call returns.
DoReceive(p) ==
    \E c \in Collected(pwire[p], pt[p].private_key) :
        LET r == receive(pt[p], pwire[p], c)
        IN  /\ r.res.st # "Pending"
            /\ Read(p, "receive", r)

\* p's application calls handshake; the call returns.  Without a timeout
\* it returns when receive_inner does.
DoHandshake(p) ==
    \E c \in Collected(pwire[p], pt[p].private_key) :
        /\ receive_inner(pt[p], pwire[p], c).res.st = "Pending" => pt[p].timeout.some
        /\ Read(p, "handshake", handshake(pt[p], pwire[p], c))

(* ---- SpecPtls ---- *)
CanCall == pOps < MaxPtlsOps

PSetPublicKey(p) ==
    /\ CanCall
    /\ \E public_key \in {pt[Peer(p)].private_key, PtlsOtherKey} :
         DoSetPublicKey(p, public_key)

PSetTimeout(p) ==
    /\ CanCall
    /\ \E timeout \in {None, Some(1)} \ {pt[p].timeout} : DoSetTimeout(p, timeout)

PSendPublicKey(p) == CanCall /\ DoSendPublicKey(p)

PSend(p) == CanCall /\ \E data \in PtlsData : DoSend(p, data)

PReceive(p) == CanCall /\ DoReceive(p)

PHandshake(p) == CanCall /\ DoHandshake(p)

\* The carrier p reads is closed.
PCarrierCloses(p) ==
    /\ CanCall
    /\ ~pwire[p].closed
    /\ pwire' = [pwire EXCEPT ![p].closed = TRUE]
    /\ pLast' = [PNone EXCEPT !.op = "closed", !.who = p]
    /\ pOps' = pOps + 1
    /\ UNCHANGED <<pt, ioVars, tunVars, cryptoVars>>

\* The remote end writes a record of its own making to p.
PRemoteWrites(p) ==
    /\ CanCall
    /\ ~pwire[p].closed
    /\ Len(pwire[p].recs) < MaxPtlsInFlight
    /\ \E r \in ForeignRecords(pt[p].private_key) :
         pwire' = [pwire EXCEPT ![p].recs = Append(@, r)]
    /\ pLast' = [PNone EXCEPT !.op = "remote", !.who = p]
    /\ pOps' = pOps + 1
    /\ UNCHANGED <<pt, ioVars, tunVars, cryptoVars>>

PtlsNext ==
    \/ \E p \in P : PSetPublicKey(p)
    \/ \E p \in P : PSetTimeout(p)
    \/ \E p \in P : PSendPublicKey(p)
    \/ \E p \in P : PSend(p)
    \/ \E p \in P : PReceive(p)
    \/ \E p \in P : PHandshake(p)
    \/ \E p \in P : PCarrierCloses(p)
    \/ \E p \in P : PRemoteWrites(p)

(* ---- SpecExchange ---- *)
\* mock_client_ptls.set_public_key(server_public)
ClientInstallsKey ==
    pOps = 0 /\ DoSetPublicKey("client", pt["server"].private_key)

\* mock_client_ptls.send_public_key()
ClientSendsKey == pOps = 1 /\ DoSendPublicKey("client")

\* mock_server_ptls.handshake()
ServerHandshakes == pOps = 2 /\ DoHandshake("server")

\* mock_client_ptls.send(&data)
ClientSends ==
    /\ pOps >= 3 /\ pOps < MaxExchangeOps
    /\ \E data \in ExchangeData(pt["server"].private_key.size) :
         DoSend("client", data)

\* mock_server_ptls.receive()
ServerReceives == pOps >= 3 /\ DoReceive("server")

ExchangeNext ==
    \/ ClientInstallsKey
    \/ ClientSendsKey
    \/ ServerHandshakes
    \/ ClientSends
    \/ ServerReceives

(***************************************************************************)
(* Claims about Ptls.                                                      *)
(***************************************************************************)
\* C4: a send before a peer key is installed returns NotReady, writes
\* nothing and leaves the state as it was; a send after a fatal error
\* returns SocketDied and writes nothing; a send writes only when the
\* state was Authenticated.
C4_SendOnlyWhenAuthenticated ==
    pLast.op = "send" =>
        /\ pLast.pre = "AwaitingPublicKey"
            => /\ pLast.res = PResult(Err("NotReady"))
               /\ ~pLast.wrote
               /\ pt[pLast.who].state = "AwaitingPublicKey"
        /\ pLast.pre = "TransmitError"
            => /\ pLast.res = PResult(Err("SocketDied"))
               /\ ~pLast.wrote
        /\ pLast.wrote => pLast.pre = "Authenticated"

C4_Witness ==
    /\ pLast.op = "send"
    /\ pLast.pre = "TransmitError"
    /\ pLast.res.err = "SocketDied"
    /\ pt[pLast.who].public_key.some

\* C5: when the write of a send or the collect_once of a receive fails with
\* an I/O, RSA or framing error, or receive finds a record that is no
\* EncryptedTraffic, the call returns that error and the state is
\* TransmitError when it returns.
C5_FailureSurfacesAndTerminates ==
    pLast.op \in {"send", "receive"} =>
        /\ pLast.inner.st = "Err"
            => /\ pLast.res = pLast.inner
               /\ pt[pLast.who].state = "TransmitError"
        /\ pLast.res.err \in {"Io", "Rsa", "PayloadTooLong", "InvalidContentType"}
            => /\ pLast.res.st = "Err"
               /\ pt[pLast.who].state = "TransmitError"

C5_Witness ==
    /\ pLast.op = "send"
    /\ pLast.pre = "Authenticated"
    /\ pLast.res.err = "Io"
    /\ pt[pLast.who].state = "TransmitError"

StateRank(state) ==
    CASE state = "AwaitingPublicKey" -> 0
      [] state = "Authenticated" -> 1
      [] state = "TransmitError" -> 2

\* C7: over set_public_key, set_timeout, handshake, send_public_key, send
\* and receive the state only moves AwaitingPublicKey -> Authenticated ->
\* TransmitError or AwaitingPublicKey -> TransmitError, and once it is
\* TransmitError no call changes it.
C7_StateMonotonic ==
    [][\A p \in P : StateRank(pt'[p].state) >= StateRank(pt[p].state)]_vars

\* C8: with the server's key installed on the client by set_public_key,
\* after the client's send_public_key and the server's handshake the server
\* is Authenticated with the client's key; a client send of data no longer
\* than max_payload_size(size of the server's key) succeeds and writes a
\* record, and the server's receive of that record returns the data
\* unchanged.
C8_AbbreviatedExchange ==
    /\ pOps >= 3
        => /\ pt["server"].state = "Authenticated"
           /\ pt["server"].public_key = Some(pt["client"].private_key)
    /\ (/\ pLast.op = "send"
        /\ pLast.pre = "Authenticated"
        /\ BLen(pLast.sent) <= max_payload_size(pt["server"].private_key.size))
        => /\ pLast.res.st = "Ok"
           /\ pLast.wrote
           /\ pwire["server"].recs[Len(pwire["server"].recs)].sent = pLast.sent
    /\ pLast.op = "receive"
        => /\ pLast.res.st = "Ok"
           /\ pLast.got = pLast.rec.sent

C8_Witness ==
    /\ pLast.op = "receive"
    /\ pLast.res.st = "Ok"
    /\ pt["server"].via = "handshake"
    /\ pt["server"].private_key.size = 64
    /\ BLen(pLast.got) = max_payload_size(64)
    /\ pLast.got = MaxData(64)

(***************************************************************************)
(* C21 - an oversize send is reportable, not terminal: a send, in the      *)
(* state Authenticated, of data longer than max_payload_size(size of the   *)
(* peer's key), data of 65536 bytes and more included, returns             *)
(* PayloadTooLong, writes nothing to the carrier and leaves the state      *)
(* Authenticated.                                                          *)
(***************************************************************************)
C21_OversizeSendReportable ==
    (/\ pLast.op = "send"
     /\ pLast.pre = "Authenticated"
     /\ BLen(pLast.sent) > max_payload_size(pt[pLast.who].public_key.v.size))
    => /\ pLast.res = PResult(Err("PayloadTooLong"))
       /\ ~pLast.wrote
       /\ pt[pLast.who].state = "Authenticated"

(***************************************************************************)
(* C34 - the public Ptls::receive reads from the carrier only in the       *)
(* Authenticated state: called in the AwaitingPublicKey state it returns   *)
(* an error, takes no byte from the carrier and delivers no data.          *)
(***************************************************************************)
C34_ReceiveOnlyWhenAuthenticated ==
    [][\A p \in P :
         (/\ pLast'.op = "receive"
          /\ pLast'.who = p
          /\ pOps' = pOps + 1
          /\ pt[p].state = "AwaitingPublicKey")
         => /\ pLast'.res.st = "Err"
            /\ pwire'[p] = pwire[p]
            /\ pLast'.got = <<>>]_vars

(***************************************************************************)
(* C39 - Ptls::send_public_key never panics: outside the Authenticated     *)
(* state, or when the write fails, it returns to its caller the error      *)
(* Ptls::send returns in the same state.                                   *)
(***************************************************************************)
C39_SendPublicKeyReturnsErrors ==
    pLast.op = "send_public_key" =>
        /\ pLast.res.st \in {"Ok", "Err"}
        /\ pLast.pre # "Authenticated"
             => pLast.res = PResult(NotAuthenticated(pLast.pre))

(***************************************************************************)
(* SpecTimeout: the two Ptls objects with handshake timeouts, and writes   *)
(* that reach the carrier in two parts: PtlsPayload::write writes the      *)
(* header and then the blocks, one write call each, and may be suspended   *)
(* between them.                                                           *)
(***************************************************************************)
\* Calls and carrier events in one behaviour of SpecTimeout.
MaxTimeoutOps == 5

\* Data for send in SpecTimeout.
TimeoutData == { BOf(<<1, 2, 3>>) }

CanTime == pOps < MaxTimeoutOps

\* No write to the carrier p writes to is suspended (the write lock is free).
WriteFree(p) == ~pwire[Peer(p)].part

TSetPublicKey(p) == CanTime /\ DoSetPublicKey(p, pt[Peer(p)].private_key)

TSetTimeout(p) ==
    /\ CanTime
    /\ ~pt[p].timeout.some
    /\ DoSetTimeout(p, Some(1))

TSendPublicKey(p) == CanTime /\ WriteFree(p) /\ DoSendPublicKey(p)

TSend(p) ==
    /\ CanTime
    /\ WriteFree(p)
    /\ \E data \in TimeoutData : DoSend(p, data)

\* A send or send_public_key of p is suspended in PtlsPayload::write after
\* the header: the record is on the carrier in part.
TWriteBegins(p) ==
    /\ CanTime
    /\ WriteFree(p)
    /\ pwire[Peer(p)].recs = <<>>
    /\ ~pwire[Peer(p)].closed
    /\ \E r \in {send_public_key(pt[p], FALSE)}
                \cup {send(pt[p], data, FALSE) : data \in TimeoutData} :
         /\ r.res.st = "Ok"
         /\ r.io # <<>>
         /\ r.io[1].blocks > 0
         /\ pwire' = [pwire EXCEPT ![Peer(p)].recs = r.io,
                                   ![Peer(p)].part = TRUE]
    /\ pLast' = [PNone EXCEPT !.op = "write_begins", !.who = p,
                              !.pre = pt[p].state]
    /\ pOps' = pOps + 1
    /\ UNCHANGED <<pt, ioVars, tunVars, cryptoVars>>

\* The suspended write to the carrier p reads goes on: the blocks arrive.
TWriteEnds(p) ==
    /\ pwire[p].part
    /\ pwire' = [pwire EXCEPT ![p].part = FALSE]
    /\ pLast' = [PNone EXCEPT !.op = "write_ends", !.who = Peer(p)]
    /\ pOps' = pOps
    /\ UNCHANGED <<pt, ioVars, tunVars, cryptoVars>>

TReceive(p) == CanTime /\ DoReceive(p)

THandshake(p) == CanTime /\ DoHandshake(p)

TimeoutNext ==
    \/ \E p \in P : TSetPublicKey(p)
    \/ \E p \in P : TSetTimeout(p)
    \/ \E p \in P : TSendPublicKey(p)
    \/ \E p \in P : TSend(p)
    \/ \E p \in P : TWriteBegins(p)
    \/ \E p \in P : TWriteEnds(p)
    \/ \E p \in P : TReceive(p)
    \/ \E p \in P : THandshake(p)

\* The receive_inner of a handshake of p is suspended in a read.
Suspended(p) ==
    /\ pt[p].state # "TransmitError"
    /\ \E c \in Collected(pwire[p], pt[p].private_key) : c.res.st = "Pending"

\* This step is a call `op` of p that returns.
Called(p, op) == pOps' = pOps + 1 /\ pLast'.op = op /\ pLast'.who = p

\* What C22 says of the handshake itself.
TimeoutSurfaces(p) ==
    /\ (Called(p, "handshake") /\ pt[p].timeout.some /\ Suspended(p))
         => pLast'.res = PResult(Err("Timeout"))
    /\ (Called(p, "handshake") /\ pLast'.res = PResult(Err("Timeout")))
         => /\ pt'[p].state = "TransmitError"
            /\ pt'[p].public_key = pt[p].public_key
            /\ pt'[p].expired = "yes"

\* A send or receive of p returns SocketDied and leaves the carriers alone.
Dead(p) ==
    (Called(p, "send") \/ Called(p, "receive"))
        => pLast'.res = PResult(Err("SocketDied")) /\ pwire' = pwire

MaxTasks == 4

Tasks == 1 .. MaxTasks

\* What is given to IoWrapper::send: a payload of one byte, and one of six
\* bytes that read as a frame themselves.
TaskSends ==
    { [ct |-> "Handshake", payload |-> BOf(<<7>>)],
      [ct |-> "ApplicationData", payload |-> BOf(<<8>>)],
      [ct |-> "ApplicationData",
       payload |-> IoFrame("Handshake", BOf(<<7>>))] }

\* The peer key of the Ptls, and the data given to Ptls::send: one block
\* and two blocks.
TaskKey == Key("ks", 64)

TaskData == { BOf(<<1, 2, 3>>), BRep(9, 60) }

\* The writes of IoWrapper::send under the write lock, one after another.
IoSendParts(ct, payload) ==
    << WriteU16(PTLS_VERSION),
       BByte(ContentTypeAsU8(ct)),
       WriteU16(AsU16(BLen(payload))),
       payload >>

\* The writes of PtlsPayload::write: the three header fields, then one
\* ciphertext block of the key's size for every block of plaintext.
PtlsWriteParts(self, public_key) ==
    LET block_size == public_key.size - Pkcs1v15Overhead
        block_count == CeilDiv(self.length, block_size)
    IN  << BByte(PtlsPayloadTypeAsU8(self.content_type)),
           WriteU16(self.version),
           WriteU16(self.length) >>
        \o [i \in 1 .. block_count |-> BRep(CipherByte, public_key.size)]

RECURSIVE Flatten(_)
Flatten(parts) ==
    IF parts = <<>> THEN <<>> ELSE BCat(Head(parts), Flatten(Tail(parts)))

NoTask == [op |-> "none", pc |-> "idle"]

TaskStart(obj) ==
    ioTask = [obj |-> obj, wlock |-> {}, rlock |-> {}, written |-> <<>>,
              frames |-> <<>>, returned |-> <<>>,
              \* the state of a Ptls, which holds its peer key
              state |-> "Authenticated",
              call |-> [id \in Tasks |-> NoTask]]

\* Task ids are given out in order.
CanStart(id) ==
    /\ ioTask.call[id].pc = "idle"
    /\ \A other \in Tasks : other < id => ioTask.call[other].pc # "idle"

\* A mutant of WriteLockFree: the framer has one lock for both sides.
OneLockFree(t) == t.wlock = {} /\ t.rlock = {}

\* A mutant of WriteLockFree: `write.lock().await` returns at once.
WriteLockAlways(t) == TRUE

\* `self.write.lock().await` returns when no task holds the Mutex.
WriteLockFree(t) == t.wlock = {}

\* A mutant of ReadLockFree: `read.lock().await` returns at once.
ReadLockAlways(t) == TRUE

\* `self.read.lock().await` returns when no task holds the Mutex.
ReadLockFree(t) == t.rlock = {}

TaskFrame == UNCHANGED <<ioSent, ioRes, tunVars, ptlsVars, cryptoVars>>

\* IoWrapper::send up to `self.write.lock().await`.
SendCall(id, ct, payload) ==
    LET r == IoSendResult(BLen(payload))
    IN  /\ ioTask.obj = "IoWrapper"
        /\ CanStart(id)
        /\ ioTask' = [ioTask EXCEPT !.call[id] =
               IF r.st = "Ok"
                  THEN [op |-> "send", pc |-> "lock", next |-> 1, err |-> "",
                        parts |-> IoSendParts(ct, payload),
                        frame |-> [ct |-> ct, payload |-> payload]]
                  ELSE [op |-> "send", pc |-> "done", res |-> r]]
        /\ UNCHANGED ioWire
        /\ TaskFrame

\* Ptls::send up to `self.write.lock().await`: send_inner reads the state
\* and returns at once outside Authenticated.  `err` is the error the
\* write of the payload will return before it writes anything.
PtlsSendCall(id, data) ==
    LET self == PtlsPayloadNew(data, "EncryptedTraffic")
        fits == self.length <= max_payload_size(TaskKey.size)
        parts == IF fits THEN PtlsWriteParts(self, TaskKey) ELSE <<>>
    IN  /\ ioTask.obj = "Ptls"
        /\ CanStart(id)
        /\ ioTask' = [ioTask EXCEPT !.call[id] =
               IF ioTask.state = "Authenticated"
                  THEN [op |-> "send", pc |-> "lock", next |-> 1,
                        err |-> IF fits THEN "" ELSE "PayloadTooLong",
                        parts |-> parts,
                        frame |-> [ct |-> "raw", payload |-> Flatten(parts)]]
                  ELSE [op |-> "send", pc |-> "done",
                        res |-> NotAuthenticated(ioTask.state)]]
        /\ UNCHANGED ioWire
        /\ TaskFrame

\* The lock of a send is acquired.  A Ptls payload that is too long makes
\* write return before its first write: the guard is dropped and
\* send_inner sets the state.
SendLock(id) ==
    LET c == ioTask.call[id]
    IN  /\ ioTask.obj # "none"
        /\ c.op = "send" /\ c.pc = "lock"
        /\ WriteLockFree(ioTask)
        /\ ioTask' = IF c.err = ""
               THEN [ioTask EXCEPT !.wlock = @ \cup {id},
                                   !.frames = Append(@, c.frame),
                                   !.call[id].pc = "write"]
               ELSE [ioTask EXCEPT !.state = "TransmitError",
                                   !.call[id] = [op |-> "send", pc |-> "done",
                                                 res |-> Err(c.err)]]
        /\ UNCHANGED ioWire
        /\ TaskFrame

\* The next write of a send; after the last one the call returns Ok and the
\* guard of the lock is dropped.
SendWrite(id) ==
    LET c == ioTask.call[id]
        last == c.next = Len(c.parts)
    IN  /\ ioTask.obj # "none"
        /\ c.op = "send" /\ c.pc = "write"
        /\ id \in ioTask.wlock
        /\ ioWire' = BCat(ioWire, c.parts[c.next])
        /\ ioTask' = [ioTask EXCEPT
               !.written = BCat(@, c.parts[c.next]),
               !.wlock = IF last THEN @ \ {id} ELSE @,
               !.call[id] = IF last
                               THEN [op |-> "send", pc |-> "done",
                                     res |-> [st |-> "Ok"]]
                               ELSE [c EXCEPT !.next = @ + 1]]
        /\ TaskFrame

\* IoWrapper::receive up to `self.read.lock().await`.
RecvCall(id) ==
    /\ ioTask.obj = "IoWrapper"
    /\ CanStart(id)
    /\ ioTask' = [ioTask EXCEPT !.call[id] =
           [op |-> "receive", pc |-> "lock", from |-> 0, got |-> <<>>]]
    /\ UNCHANGED ioWire
    /\ TaskFrame

\* The lock of a receive is acquired; `from` is the number of bytes read
\* from the carrier before.
RecvLock(id) ==
    LET c == ioTask.call[id]
    IN  /\ ioTask.obj # "none"
        /\ c.op = "receive" /\ c.pc = "lock"
        /\ ReadLockFree(ioTask)
        /\ ioTask' = [ioTask EXCEPT
               !.rlock = @ \cup {id},
               !.call[id].pc = "read",
               !.call[id].from = BLen(ioTask.written) - BLen(ioWire)]
        /\ UNCHANGED ioWire
        /\ TaskFrame

\* A receive that holds the lock reads what the carrier has for it: it
\* returns when it has read a whole frame or a header it rejects, and is
\* suspended in a read otherwise, having taken every byte there was.
RecvRead(id) ==
    LET c == ioTask.call[id]
        w == BCat(c.got, ioWire)
        r == IoReceiveOutcome(w)
        res == [x \in DOMAIN r \ {"used"} |-> r[x]]
    IN  /\ ioTask.obj # "none"
        /\ c.op = "receive" /\ c.pc = "read"
        /\ id \in ioTask.rlock
        /\ ioWire # <<>>
        /\ IF r.st = "Pending"
              THEN /\ ioWire' = <<>>
                   /\ ioTask' = [ioTask EXCEPT !.call[id].got = w]
              ELSE /\ ioWire' = BDrop(w, r.used)
                   /\ ioTask' = [ioTask EXCEPT
                          !.rlock = @ \ {id},
                          !.returned = Append(@, res),
                          !.call[id] = [op |-> "receive", pc |-> "done",
                                        from |-> c.from, res |-> res]]
        /\ TaskFrame

\* The caller drops a receive that is suspended, waiting for the lock or
\* for bytes: the guard of the lock is dropped, and so is what was read.
RecvDrop(id) ==
    LET c == ioTask.call[id]
    IN  /\ ioTask.obj # "none"
        /\ c.op = "receive"
        /\ \/ c.pc = "lock" /\ ~ReadLockFree(ioTask)
           \/ c.pc = "read" /\ ioWire = <<>>
        /\ ioTask' = [ioTask EXCEPT
               !.rlock = @ \ {id},
               !.call[id] = [op |-> "receive", pc |-> "dropped",
                             from |-> c.from, got |-> c.got]]
        /\ UNCHANGED ioWire
        /\ TaskFrame

TasksNext ==
    \/ \E id \in Tasks, s \in TaskSends : SendCall(id, s.ct, s.payload)
    \/ \E id \in Tasks, data \in TaskData : PtlsSendCall(id, data)
    \/ \E id \in Tasks : SendLock(id)
    \/ \E id \in Tasks : SendWrite(id)
    \/ \E id \in Tasks : RecvCall(id)
    \/ \E id \in Tasks : RecvLock(id)
    \/ \E id \in Tasks : RecvRead(id)

CancelNext ==
    \/ TasksNext
    \/ \E id \in Tasks : RecvDrop(id)

\* The frames of ioTask.frames before the last one.
Front(q) == SubSeq(q, 1, Len(q) - 1)

(***************************************************************************)
(* C23 - concurrent senders serialize: under every interleaving of         *)
(* concurrent send calls on one IoWrapper or one Ptls, the bytes written   *)
(* to the carrier are whole frames one after another, followed, while a    *)
(* send holds the write lock, by the first bytes of its frame only.        *)
(***************************************************************************)
C23_SendersSerialize ==
    ioTask.obj # "none" =>
      LET fr == ioTask.frames
      IN  IF ioTask.wlock = {}
             THEN ioTask.written = FramesBytes(fr)
             ELSE \E k \in 0 .. BLen(FrameBytes(fr[Len(fr)])) :
                    ioTask.written =
                      BCat(FramesBytes(Front(fr)),
                           BTake(FrameBytes(fr[Len(fr)]), k))

\* Two sends wait for the write lock while a third is between the header
\* and the payload of its frame.
C23_Witness ==
    /\ ioTask.obj = "IoWrapper"
    /\ \E a, b, c \in Tasks :
         /\ a # b
         /\ ioTask.call[a].op = "send" /\ ioTask.call[a].pc = "lock"
         /\ ioTask.call[b].op = "send" /\ ioTask.call[b].pc = "lock"
         /\ ioTask.call[c].op = "send" /\ ioTask.call[c].pc = "write"
         /\ ioTask.call[c].next = 4

(***************************************************************************)
(* C24 - in-order delivery: the successive receives of an IoWrapper return *)
(* the records that its successful sends put on the carrier, in the order  *)
(* the sends put them there, none lost, duplicated or reordered, also when *)
(* several receive calls run concurrently.                                 *)
(***************************************************************************)
C24_InOrderDelivery ==
    ioTask.obj = "IoWrapper" =>
      /\ Len(ioTask.returned) <= Len(ioTask.frames)
      /\ \A i \in 1 .. Len(ioTask.returned) :
           ioTask.returned[i] = [st |-> "Ok", ct |-> ioTask.frames[i].ct,
                                 payload |-> ioTask.frames[i].payload]

\* Two receives that waited for the read lock at the same time have
\* returned two different records.
C24_Witness ==
    /\ ioTask.obj = "IoWrapper"
    /\ Len(ioTask.returned) = 2
    /\ ioTask.returned[1] # ioTask.returned[2]
    /\ ioTask.call[1].op = "receive" /\ ioTask.call[1].pc = "done"
    /\ ioTask.call[2].op = "receive" /\ ioTask.call[2].pc = "done"

\* The numbers of bytes into the carrier at which a frame starts or ends.
Boundaries ==
    { BLen(FramesBytes(SubSeq(ioTask.frames, 1, k))) :
        k \in 0 .. Len(ioTask.frames) }

(***************************************************************************)
(* C25 - cancellation safety of receive: after a pending receive was       *)
(* dropped when it had consumed part of a frame, the next receive starts   *)
(* at a frame boundary or fails because the tunnel is Terminated; no       *)
(* receive returns a record parsed from the middle of a frame.  (An        *)
(* IoWrapper has no state a receive could fail on.)                        *)
(***************************************************************************)
C25_ReceiveCancellationSafe ==
    ioTask.obj = "IoWrapper" =>
      \A id \in Tasks :
        (/\ ioTask.call[id].op = "receive"
         /\ ioTask.call[id].pc = "done"
         /\ ioTask.call[id].res.st = "Ok")
        => ioTask.call[id].from \in Boundaries

\* The call id is a receive that holds the read-side lock and is suspended
\* in a read of the carrier, which has no byte for it.
ReceiveSuspended(id) ==
    /\ ioTask.call[id].op = "receive"
    /\ ioTask.call[id].pc = "read"
    /\ id \in ioTask.rlock
    /\ ioWire = <<>>

\* The call id is a send that holds the write-side lock, between two of
\* its writes.
SendSuspended(id) ==
    /\ ioTask.call[id].op = "send"
    /\ ioTask.call[id].pc = "write"
    /\ id \in ioTask.wlock

(***************************************************************************)
(* C35 - read/write separation: a receive holds only the read-side lock    *)
(* and a send only the write-side lock.  While a receive is suspended      *)
(* waiting for carrier bytes, a send that waits for its lock acquires it   *)
(* as soon as no other send holds it, and a send that holds it goes on     *)
(* writing; while a send is suspended between two writes, a receive that   *)
(* waits for its lock acquires it as soon as no other receive holds it.    *)
(***************************************************************************)
C35_ReadWriteSeparation ==
    \A id \in Tasks :
        /\ id \in ioTask.wlock => ioTask.call[id].op = "send"
        /\ id \in ioTask.rlock => ioTask.call[id].op = "receive"
        /\ (/\ ioTask.call[id].op = "send"
            /\ ioTask.call[id].pc = "lock"
            /\ \A other \in Tasks : ~SendSuspended(other))
           => ENABLED SendLock(id)
        /\ SendSuspended(id) => ENABLED SendWrite(id)
        /\ (/\ ioTask.call[id].op = "receive"
            /\ ioTask.call[id].pc = "lock"
            /\ \A other \in Tasks : ~(other \in ioTask.rlock))
           => ENABLED RecvLock(id)

\* A send has completed and another is writing while a receive that was
\* called first is suspended with the read-side lock.
C35_Witness ==
    /\ ReceiveSuspended(1)
    /\ ioTask.call[2].op = "send" /\ ioTask.call[2].pc = "done"
    /\ SendSuspended(3)

(***************************************************************************)
(* SpecSenders: concurrent calls of Ptls::send on one Ptls that is         *)
(* Authenticated, some of them with a payload that is too long.            *)
(***************************************************************************)
\* The data given to Ptls::send: the data of SpecTasks, and one byte more
\* than max_payload_size allows.
SenderData ==
    TaskData \cup { BRep(9, max_payload_size(TaskKey.size) + 1) }

SendersNext ==
    \/ \E id \in Tasks, data \in SenderData : PtlsSendCall(id, data)
    \/ \E id \in Tasks : SendLock(id)
    \/ \E id \in Tasks : SendWrite(id)

(***************************************************************************)
(* C38 - no write after termination under concurrency: once the state of   *)
(* the Ptls is TransmitError no send writes a byte to the carrier, also    *)
(* not a send that read the state as Authenticated before the failure of   *)
(* another send.                                                           *)
(***************************************************************************)
C38_NoWriteAfterTransmitError ==
    [][(ioTask.obj = "Ptls" /\ ioTask.state = "TransmitError")
         => /\ ioTask'.written = ioTask.written
            /\ ioWire' = ioWire]_vars

(***************************************************************************)
(* The specifications.                                                     *)
(***************************************************************************)
IoInit ==
    /\ IoStart
    /\ TunIdle
    /\ PtlsIdle
    /\ CryptoIdle

SpecIo == IoInit /\ [][IoNext]_vars

SpecWire == IoInit /\ [][WireNext]_vars

TasksInit ==
    /\ ioWire = <<>>
    /\ ioSent = <<>>
    /\ ioRes = IoIdle
    /\ \E obj \in {"IoWrapper", "Ptls"} : TaskStart(obj)
    /\ TunIdle
    /\ PtlsIdle
    /\ CryptoIdle

SendersInit ==
    /\ ioWire = <<>>
    /\ ioSent = <<>>
    /\ ioRes = IoIdle
    /\ TaskStart("Ptls")
    /\ TunIdle
    /\ PtlsIdle
    /\ CryptoIdle

SpecSenders == SendersInit /\ [][SendersNext]_vars

SpecTasks == TasksInit /\ [][TasksNext]_vars

SpecCancel == TasksInit /\ [][CancelNext]_vars

TunnelInit ==
    /\ \E signed \in BOOLEAN : TunStart(signed, TunnelConfigs)
    /\ IoStart
    /\ PtlsIdle
    /\ CryptoIdle

SpecTunnel == TunnelInit /\ [][TunnelNext]_vars

AuthInit ==
    /\ TunStart(FALSE, AuthConfigs)
    /\ IoStart
    /\ PtlsIdle
    /\ CryptoIdle

SpecAuth == AuthInit /\ [][AuthNext]_vars

HandshakeInit ==
    /\ TunStart(TRUE, HandshakeConfigs)
    /\ IoStart
    /\ PtlsIdle
    /\ CryptoIdle

\* Both calls run as tasks of the runtime: a step that stays possible is
\* taken.
SpecHandshake ==
    /\ HandshakeInit
    /\ [][HandshakeNext]_vars
    /\ WF_vars(ClientRuns) /\ WF_vars(FullHandshakeReturn)
    /\ WF_vars(ServerRuns) /\ WF_vars(ServerHandshakeStep)

SpecServer == TunnelInit /\ [][ServerNext]_vars

NegotiateInit ==
    /\ TunStart(TRUE, NegotiateConfigs)
    /\ IoStart
    /\ PtlsIdle
    /\ CryptoIdle

SpecNegotiate == NegotiateInit /\ [][HandshakeNext]_vars

SpecAlert == HandshakeInit /\ [][AlertNext]_vars

PtlsInit ==
    /\ PtlsStart
    /\ IoStart
    /\ TunIdle
    /\ CryptoIdle

CryptoInit ==
    /\ CryptoIdle
    /\ IoStart
    /\ TunIdle
    /\ PtlsIdle

SpecCrypto == CryptoInit /\ [][CryptoNext]_vars

SpecPtls == PtlsInit /\ [][PtlsNext]_vars

SpecTimeout == PtlsInit /\ [][TimeoutNext]_vars

SpecExchange == PtlsInit /\ [][ExchangeNext]_vars

====
